---- MODULE Spec2Model ----
(***************************************************************************)
(* ABI lowering examples of cranelift-examples.                            *)
(*                                                                         *)
(* Part 1: the LookupTable of examples/lowering-structs/types.rs and its   *)
(*         layout queries (SpecTypes).                                     *)
(* Part 2: the aligned layout functions of examples/struct-layouts         *)
(*         (SpecLayouts).                                                  *)
(* Part 3: FuncLower of examples/lowering-structs/lower.rs (Spec) and the  *)
(*         main/move_right driver of lowering-structs/main.rs (SpecMain).  *)
(*                                                                         *)
(* Part 4: the tagged unions of examples/tagged-union-layouts: one         *)
(*         construct_tagged_union followed by read_payload (SpecUnion) and *)
(*         the match of main (SpecPacket).                                 *)
(*                                                                         *)
(* Part 5: the closures of examples/closures: construct_closure and        *)
(*         Closure::call in the body of main (SpecClosures).               *)
(*                                                                         *)
(* Field and parameter indices are 0-based as in the source; sequences are *)
(* 1-based, so element i of a Vec is seq[i + 1].                           *)
(***************************************************************************)
EXTENDS Integers, Sequences, FiniteSets, TLC

VARIABLES
    types,      \* the LookupTable: struct_fields, function_types, function_names, ptr_size
    query,      \* the last LookupTable query and what it returned
    layout_fields, \* struct-layouts: the cl::Types of the struct's fields
    lquery,     \* struct-layouts: the last layout function called and its result
    cur_fn,     \* lowering-structs: the function whose body FuncLower is lowering
    lower,      \* the FuncLower: signature, entry block, stack slots, memory, panic
    vals,       \* the VirtualValues the body being lowered holds
    pc,         \* where the lowering of the body stands
    nops,       \* the number of FuncLower operations applied to the body
    last,       \* the FuncLower operation applied last, its operands and its result
    caller,     \* main/move_right driver: the frames suspended at a call instruction
    locals,     \* main/move_right driver: the `let` bindings of the body being lowered
    literals,   \* main/move_right driver: the integer literals of define_main
    isa_pointer_type, \* tagged unions: module.isa().pointer_type()
    fbuilder,   \* the FunctionBuilder of main: instructions, stack slots, memory, blocks
    operands,   \* the cl::Values the body passes to the constructors
    tagged,     \* tagged unions: the (tag, payload) pairs bound in the body
    matched,    \* tagged unions: the binding the match reads
    payload_read, \* tagged unions: what read_payload returned
    last_kind,  \* tagged unions: the last payload_kind call and its result
    upc,        \* where the construction of the body stands
    module,     \* closures: the functions the ObjectModule declares and defines
    closures,   \* closures: the construct_closure calls made and the Closures returned
    calls       \* closures: the Closure::call calls made, what they emitted and returned

typesVars == <<types, query>>
layoutVars == <<layout_fields, lquery>>
lowerVars == <<cur_fn, lower, vals, pc, nops, last>>
mainVars == <<caller, locals, literals>>
unionVars == <<isa_pointer_type, operands, tagged, matched, payload_read, last_kind>>
closureVars == <<module, closures, calls>>
builderVars == <<fbuilder, upc, unionVars, closureVars>>
vars == <<types, query, layout_fields, lquery, cur_fn, lower, vals, pc, nops, last,
          caller, locals, literals, builderVars>>
\* what a step of one example leaves alone: the state of the other examples
notTypesVars == <<layoutVars, lowerVars, mainVars, builderVars>>
notLayoutVars == <<typesVars, lowerVars, mainVars, builderVars>>
notLowerVars == <<types, query, layoutVars, mainVars, builderVars>>

(***************************************************************************)
(* Bounds of the enumerated inputs.                                        *)
(***************************************************************************)
\* longest field list of the additional struct "Custom"
MaxFields == 2
\* longest parameter list of the additional function "user_fn"
MaxParams == 1
\* longest field list given to the struct-layouts functions
MaxLayoutFields == 4
\* most FuncLower operations applied to one function body after its entry block
MaxOps == 3

(***************************************************************************)
(* lowering-structs/types.rs                                               *)
(***************************************************************************)
\* enum Type { Int, Struct(Name) }; lower.rs additionally matches Type::Unit
TypeInt == [k |-> "Int", name |-> ""]
TypeStruct(name) == [k |-> "Struct", name |-> name]
TypeUnit == [k |-> "Unit", name |-> ""]

\* module.isa().pointer_bytes() of the default target triple x86_64-unknown-linux
PtrSize == 8

\* cl::Type::bytes
bytes(clty) ==
    CASE clty = "I8" -> 1
      [] clty = "I16" -> 2
      [] clty = "I32" -> 4
      [] clty = "I64" -> 8

\* cl::Type::int_with_byte_size(n).unwrap()
int_with_byte_size(n) ==
    CASE n = 1 -> "I8"
      [] n = 2 -> "I16"
      [] n = 4 -> "I32"
      [] n = 8 -> "I64"

\* cl::AbiParam::new / cl::AbiParam::special
AbiParam_new(clty) == [value_type |-> clty, purpose |-> "Normal"]
AbiParam_special(clty, purpose) == [value_type |-> clty, purpose |-> purpose]

NoFunctionNames == [id \in {} |-> ""]

\* LookupTable::hardcoded
hardcoded(ptr_size) ==
    [ ptr_size |-> ptr_size,
      function_names |-> NoFunctionNames,
      function_types |->
        [ f \in {"main", "move_right"} |->
            IF f = "main"
            THEN [params |-> <<>>, ret |-> TypeInt]
            ELSE [params |-> <<TypeStruct("Player"), TypeInt>>,
                  ret |-> TypeStruct("Player")] ],
      struct_fields |->
        [ s \in {"Player", "Point", "unit"} |->
            CASE s = "Player" -> << [name |-> "id", ty |-> TypeInt],
                                    [name |-> "position", ty |-> TypeStruct("Point")] >>
              [] s = "Point" -> << [name |-> "x", ty |-> TypeInt],
                                   [name |-> "y", ty |-> TypeInt] >>
              [] s = "unit" -> << >> ] ]

\* types.function_names.insert(id, name)
function_names_insert(t, id, name) ==
    [t EXCEPT !.function_names =
        [i \in (DOMAIN t.function_names) \cup {id} |->
            IF i = id THEN name ELSE t.function_names[i]]]

(***************************************************************************)
(* The table is data: besides the entries of hardcoded() the model lets    *)
(* the table declare one more struct, "Custom", and one more function,     *)
(* "user_fn", over the types already declared, so that nested, unit-typed  *)
(* and larger aggregates are covered by the same operations.               *)
(***************************************************************************)
DeclaredTypes ==
    {TypeInt, TypeStruct("unit"), TypeStruct("Point"), TypeStruct("Player")}

SeqsUpTo(S, n) == UNION {[1..k -> S] : k \in 0..n}

FieldName(i) == CASE i = 1 -> "f0" [] i = 2 -> "f1" [] i = 3 -> "f2" [] OTHER -> "f3"

CustomFields(tys) == [i \in 1..Len(tys) |-> [name |-> FieldName(i), ty |-> tys[i]]]

\* FuncIds in the order of Module::declare_function
MainId == 0
MoveRightId == 1
UserFnId == MoveRightId + 1

WithCustom(t, tys, params, ret) ==
    [t EXCEPT
        !.struct_fields =
            [s \in (DOMAIN t.struct_fields) \cup {"Custom"} |->
                IF s = "Custom" THEN CustomFields(tys) ELSE t.struct_fields[s]],
        !.function_types =
            [f \in (DOMAIN t.function_types) \cup {"user_fn"} |->
                IF f = "user_fn" THEN [params |-> params, ret |-> ret]
                ELSE t.function_types[f]]]

\* the table as main() leaves it before the first define_*: hardcoded() and the
\* function_names insertions
Tables ==
    { function_names_insert(
        function_names_insert(
          function_names_insert(
            WithCustom(hardcoded(PtrSize), tys, params, ret),
            MainId, "main"),
          MoveRightId, "move_right"),
        UserFnId, "user_fn") :
      tys \in SeqsUpTo(DeclaredTypes, MaxFields),
      params \in SeqsUpTo(DeclaredTypes \cup {TypeStruct("Custom")}, MaxParams),
      ret \in DeclaredTypes \cup {TypeStruct("Custom")} }

\* LookupTable::for_scalars / for_scalars_of_struct: the cl::Types f is called with,
\* in call order
RECURSIVE for_scalars(_), for_scalars_of_struct(_), for_scalars_of_fields(_, _)
for_scalars(ty) ==
    IF ty.k = "Int" THEN <<"I32">> ELSE for_scalars_of_struct(ty.name)

for_scalars_of_fields(fields, i) ==
    IF i > Len(fields) THEN <<>>
    ELSE for_scalars(fields[i].ty) \o for_scalars_of_fields(fields, i + 1)

for_scalars_of_struct(name) ==
    for_scalars_of_fields(types.struct_fields[name], 1)

\* size += clty.bytes() over a list of cl::Types
RECURSIVE sum_bytes(_)
sum_bytes(cltys) ==
    IF cltys = <<>> THEN 0 ELSE bytes(Head(cltys)) + sum_bytes(Tail(cltys))

\* LookupTable::return_type_of
return_type_of(id) ==
    types.function_types[types.function_names[id]].ret

\* mutant: the threshold is off by one
struct_passing_mode_lt2(name) ==
    IF Len(for_scalars_of_struct(name)) < 2 THEN "ByScalars" ELSE "ByPointer"

\* mutant: the threshold moves with the operations applied to the function being lowered
struct_passing_mode_by_ops(name) ==
    IF Len(for_scalars_of_struct(name)) < 3 + nops THEN "ByScalars" ELSE "ByPointer"

\* LookupTable::struct_passing_mode
struct_passing_mode(name) ==
    IF Len(for_scalars_of_struct(name)) < 3 THEN "ByScalars" ELSE "ByPointer"

\* LookupTable::fields_of_struct: (i, name, ty) with i 0-based
fields_of_struct(name) ==
    [i \in 1..Len(types.struct_fields[name]) |->
        [i |-> i - 1,
         name |-> types.struct_fields[name][i].name,
         ty |-> types.struct_fields[name][i].ty]]

\* LookupTable::size_of_struct
size_of_struct(name) == sum_bytes(for_scalars_of_struct(name))

\* LookupTable::size_of
size_of(ty) == sum_bytes(for_scalars(ty))

\* LookupTable::resolve_field: position of the first field called `field`
resolve_field(type_, field) ==
    (CHOOSE i \in 1..Len(types.struct_fields[type_]) :
        /\ types.struct_fields[type_][i].name = field
        /\ \A j \in 1..(i - 1) : types.struct_fields[type_][j].name # field) - 1

\* LookupTable::type_of_field
type_of_field(struct_, field) == types.struct_fields[struct_][field + 1].ty

\* the loop of LookupTable::offset_of_field, from field index i (0-based) on
RECURSIVE offset_of_field_loop(_, _, _, _)
offset_of_field_loop(fields, field, i, offset) ==
    IF i = field THEN offset
    ELSE offset_of_field_loop(fields, field, i + 1, offset + size_of(fields[i + 1].ty))

\* mutant: the field's own size is added before the comparison
offset_of_field_incl(struct_, field) ==
    offset_of_field_loop(types.struct_fields[struct_], field + 1, 0, 0)

\* LookupTable::offset_of_field
offset_of_field(struct_, field) ==
    offset_of_field_loop(types.struct_fields[struct_], field, 0, 0)

\* the parameter loop of LookupTable::create_signature, from declared parameter i on
RECURSIVE create_signature_params(_, _)
create_signature_params(fparams, i) ==
    IF i > Len(fparams) THEN <<>>
    ELSE LET p == fparams[i]
             size_t == int_with_byte_size(types.ptr_size)
             here ==
                IF p.k = "Int" THEN <<AbiParam_new("I32")>>
                ELSE IF struct_passing_mode(p.name) = "ByScalars"
                THEN [j \in 1..Len(for_scalars_of_struct(p.name)) |->
                        AbiParam_new(for_scalars_of_struct(p.name)[j])]
                ELSE <<AbiParam_new(size_t)>>
         IN  here \o create_signature_params(fparams, i + 1)

\* mutant: the out pointer is pushed after the declared parameters
create_signature_sret_last(call_conv, fname) ==
    LET fparams == types.function_types[fname].params
        fret == types.function_types[fname].ret
        size_t == int_with_byte_size(types.ptr_size)
        by_pointer == fret.k = "Struct" /\ struct_passing_mode(fret.name) = "ByPointer"
    IN  [ params |-> create_signature_params(fparams, 1) \o
                     (IF by_pointer
                      THEN <<AbiParam_special(size_t, "StructReturn")>> ELSE <<>>),
          returns |-> IF fret.k = "Int" THEN <<AbiParam_new("I32")>>
                      ELSE IF by_pointer THEN <<>>
                      ELSE [j \in 1..Len(for_scalars_of_struct(fret.name)) |->
                              AbiParam_new(for_scalars_of_struct(fret.name)[j])],
          call_conv |-> call_conv ]

\* LookupTable::create_signature
create_signature(call_conv, fname) ==
    LET fparams == types.function_types[fname].params
        fret == types.function_types[fname].ret
        size_t == int_with_byte_size(types.ptr_size)
        returns ==
            IF fret.k = "Int" THEN <<AbiParam_new("I32")>>
            ELSE IF struct_passing_mode(fret.name) = "ByScalars"
            THEN [j \in 1..Len(for_scalars_of_struct(fret.name)) |->
                    AbiParam_new(for_scalars_of_struct(fret.name)[j])]
            ELSE <<>>
        out_ptr ==
            IF fret.k = "Struct" /\ struct_passing_mode(fret.name) = "ByPointer"
            THEN <<AbiParam_special(size_t, "StructReturn")>>
            ELSE <<>>
    IN  [ params |-> out_ptr \o create_signature_params(fparams, 1),
          returns |-> returns,
          call_conv |-> call_conv ]

\* module.isa().default_call_conv() of the default target
DefaultCallConv == "SystemV"

(***************************************************************************)
(* struct-layouts/main.rs: the aligned layout functions                    *)
(***************************************************************************)
\* fn alignment_of_scalar_type
alignment_of_scalar_type(of) == bytes(of)

\* the loop of struct-layouts size_of_struct over the fields from index i (1-based) on
RECURSIVE layouts_size_loop(_, _, _)
layouts_size_loop(fs, i, size) ==
    IF i > Len(fs) THEN size
    ELSE LET sized == size + bytes(fs[i])
             align == alignment_of_scalar_type(fs[i])
             padding == (align - (sized % align)) % align
         IN  layouts_size_loop(fs, i + 1, sized + padding)

\* fn alignment_of_struct: the largest field alignment, 0 for no fields
RECURSIVE alignment_of_struct_loop(_, _, _)
alignment_of_struct_loop(fs, i, alignment) ==
    IF i > Len(fs) THEN alignment
    ELSE LET field_alignment == alignment_of_scalar_type(fs[i])
         IN  alignment_of_struct_loop(fs, i + 1,
                IF alignment >= field_alignment THEN alignment ELSE field_alignment)

alignment_of_struct(fs) == alignment_of_struct_loop(fs, 1, 0)

\* fn size_of_struct of struct-layouts; `size % self_align` panics (division by zero)
\* when there is no field
layouts_size_of_struct_panics(fs) == alignment_of_struct(fs) = 0

\* mutant: the struct itself is not padded to its alignment
layouts_size_of_struct_no_end_padding(fs) == layouts_size_loop(fs, 1, 0)

layouts_size_of_struct(fs) ==
    LET size == layouts_size_loop(fs, 1, 0)
        self_align == alignment_of_struct(fs)
        end_padding == (self_align - (size % self_align)) % self_align
    IN  size + end_padding

\* the loop of struct-layouts offset_of_field over fields.iter().take(field),
\* from index i (1-based) on
RECURSIVE layouts_offset_loop(_, _, _, _)
layouts_offset_loop(fs, field, i, offset) ==
    IF i > field \/ i > Len(fs) THEN offset
    ELSE LET sized == offset + bytes(fs[i])
             align == alignment_of_scalar_type(fs[i])
             padding == (align - (sized % align)) % align
         IN  layouts_offset_loop(fs, field, i + 1, sized + padding)

\* fn offset_of_field of struct-layouts (field 0-based)
layouts_offset_of_field(field, fs) == layouts_offset_loop(fs, field, 1, 0)

ScalarTypes == {"I8", "I16", "I32", "I64"}

\* large_struct_fields of main
LargeStruct == <<"I32", "I8", "I32", "I16">>

NoSignature == [params |-> <<>>, returns |-> <<>>, call_conv |-> ""]

NoQuery ==
    [op |-> "none", name |-> "", field |-> 0, mode |-> "", num |-> 0, sig |-> NoSignature,
     fname |-> "", value |-> <<>>, panic |-> ""]

\* where the stack slots of the outermost activation live
StackBase == 1000

\* FuncLower::new: nothing emitted, no block, no stack slot
NewFuncLower(sig, args, mem) ==
    [ sig |-> sig, args |-> args, block_params |-> <<>>, insts |-> <<>>,
      slots |-> <<>>, stack_base |-> StackBase, mem |-> mem, panic |-> "",
      undef |-> FALSE, returned |-> FALSE, ret_values |-> <<>>,
      register_returns |-> <<>> ]

NoMem == [a \in {} |-> 0]

NoFuncLower == NewFuncLower(NoSignature, <<>>, NoMem)

NoValue == [k |-> "None", value |-> 0, type_ |-> "", ptr |-> 0, fields |-> <<>>]

NoOp ==
    [ op |-> "none", arg |-> NoValue, field |-> 0, type_ |-> "", supplied |-> <<>>,
      func |-> 0, params |-> <<>>, result |-> <<>>, call_params |-> <<>>,
      before |-> NoFuncLower ]

NoLiterals == [id |-> 0, x |-> 0, y |-> 0, by |-> 0]

\* a FunctionBuilder positioned in the entry block of a function without instructions
NewFunctionBuilder ==
    [ insts |-> <<>>,         \* the opcodes emitted, in order
      slots |-> <<>>,         \* the sizes of the stack slots created, in order
      mem |-> <<>>,           \* the bytes of the stack slots, by address - StackBase
      blocks |-> 1,           \* the number of blocks created; block 1 is the entry block
      jump_table |-> [default |-> 0, table |-> <<>>],
      block |-> 1,            \* the block control is in
      returned |-> <<>>,      \* the operands of the return instruction reached
      trapped |-> FALSE ]     \* a trap instruction was reached

NoKind == [types |-> <<>>, kind |-> "none", target |-> ""]

NoRead == [done |-> FALSE, values |-> <<>>]

UnionIdle ==
    /\ isa_pointer_type = "I64"
    /\ operands = <<>>
    /\ tagged = <<>>
    /\ matched = ""
    /\ payload_read = NoRead
    /\ last_kind = NoKind

NoModule == [functions |-> <<>>, panic |-> ""]

ClosuresIdle ==
    /\ module = NoModule
    /\ closures = <<>>
    /\ calls = <<>>

BuilderIdle ==
    /\ fbuilder = NewFunctionBuilder
    /\ upc = "idle"
    /\ UnionIdle
    /\ ClosuresIdle

MainIdle ==
    /\ caller = <<>>
    /\ locals = <<>>
    /\ literals = NoLiterals

LowerIdle ==
    /\ cur_fn = ""
    /\ lower = NoFuncLower
    /\ vals = {}
    /\ pc = "idle"
    /\ nops = 0
    /\ last = NoOp
    /\ MainIdle

NoLQuery == [op |-> "none", field |-> 0, num |-> 0, panic |-> FALSE]

LayoutIdle ==
    /\ layout_fields = <<>>
    /\ lquery = NoLQuery

TypesIdle ==
    /\ types = hardcoded(PtrSize)
    /\ query = NoQuery

InitLayouts ==
    /\ layout_fields \in SeqsUpTo(ScalarTypes, MaxLayoutFields)
    /\ lquery = NoLQuery
    /\ BuilderIdle
    /\ TypesIdle
    /\ LowerIdle

AskLayoutOffset ==
    \E field \in 0..(Len(layout_fields) - 1) :
        /\ lquery' = [NoLQuery EXCEPT !.op = "offset_of_field", !.field = field,
                                      !.num = layouts_offset_of_field(field, layout_fields)]
        /\ UNCHANGED <<layout_fields, notLayoutVars>>

AskLayoutSize ==
    /\ lquery' = IF layouts_size_of_struct_panics(layout_fields)
                 THEN [NoLQuery EXCEPT !.op = "size_of_struct", !.panic = TRUE]
                 ELSE [NoLQuery EXCEPT !.op = "size_of_struct",
                                       !.num = layouts_size_of_struct(layout_fields)]
    /\ UNCHANGED <<layout_fields, notLayoutVars>>

AskLayoutAlignment ==
    /\ lquery' = [NoLQuery EXCEPT !.op = "alignment_of_struct",
                                  !.num = alignment_of_struct(layout_fields)]
    /\ UNCHANGED <<layout_fields, notLayoutVars>>

NextLayouts ==
    \/ AskLayoutOffset
    \/ AskLayoutSize
    \/ AskLayoutAlignment

SpecLayouts == InitLayouts /\ [][NextLayouts]_vars

\* C10: offset_of_field(i, fields) of struct-layouts is a multiple of field i's own
\* alignment (its byte size); the fields of LargeStruct [I32, I8, I32, I16] sit at
\* offsets 0, 4, 8, 12.
C10_AlignedOffsets ==
    lquery.op = "offset_of_field" =>
        /\ lquery.num % bytes(layout_fields[lquery.field + 1]) = 0
        /\ layout_fields = LargeStruct => lquery.num = <<0, 4, 8, 12>>[lquery.field + 1]

\* C11: for a non-empty field list size_of_struct of struct-layouts does not panic, is a
\* multiple of alignment_of_struct, which is the largest field size, and every field
\* ends before the next one starts and the last one ends inside the struct
C11_AlignedSize ==
    (lquery.op = "size_of_struct" /\ layout_fields # <<>>) =>
        LET fs == layout_fields
            n == Len(fs)
            align == alignment_of_struct(fs)
        IN  /\ ~lquery.panic
            /\ \A i \in 1..n : bytes(fs[i]) <= align
            /\ \E i \in 1..n : bytes(fs[i]) = align
            /\ lquery.num % align = 0
            /\ \A i \in 0..(n - 2) :
                    layouts_offset_of_field(i, fs) + bytes(fs[i + 1])
                        <= layouts_offset_of_field(i + 1, fs)
            /\ layouts_offset_of_field(n - 1, fs) + bytes(fs[n]) <= lquery.num

\* the size of a struct with fields of different sizes that needs padding has been asked
C11_Witness ==
    /\ lquery.op = "size_of_struct"
    /\ Len(layout_fields) >= 3
    /\ \E i, j \in 1..Len(layout_fields) : layout_fields[i] # layout_fields[j]
    /\ lquery.num > bytes(layout_fields[1]) + bytes(layout_fields[2]) + bytes(layout_fields[3])
    /\ Len(layout_fields) = 3


(***************************************************************************)
(* struct-and-enum/types.rs: the TypeResolver, a table of struct fields.   *)
(***************************************************************************)
\* TypeResolver::hardcoded
TypeResolver_hardcoded(ptr_size) ==
    [ ptr_size |-> ptr_size,
      struct_fields |->
        [ s \in {"Player", "Point", "unit"} |->
            CASE s = "Player" -> << [name |-> "id", ty |-> TypeInt],
                                    [name |-> "position", ty |-> TypeStruct("Point")] >>
              [] s = "Point" -> << [name |-> "x", ty |-> TypeInt],
                                   [name |-> "y", ty |-> TypeInt] >>
              [] s = "unit" -> << >> ] ]

\* TypeResolver::fold_scalars / fold_scalars_of_struct: the cl::Types f is folded over,
\* in order; an Int of this example is an I64
RECURSIVE TypeResolver_fold_scalars(_, _), TypeResolver_fold_scalars_of_struct(_, _),
          TypeResolver_fold_fields(_, _, _)
TypeResolver_fold_scalars(resolver, ty) ==
    IF ty.k = "Int" THEN <<"I64">>
    ELSE TypeResolver_fold_scalars_of_struct(resolver, ty.name)

TypeResolver_fold_fields(resolver, fields, i) ==
    IF i > Len(fields) THEN <<>>
    ELSE TypeResolver_fold_scalars(resolver, fields[i].ty)
            \o TypeResolver_fold_fields(resolver, fields, i + 1)

TypeResolver_fold_scalars_of_struct(resolver, name) ==
    TypeResolver_fold_fields(resolver, resolver.struct_fields[name], 1)

\* TypeResolver::struct_passing_mode: `fold(0, |n, _| n + 1) > 2` is ByScalars
TypeResolver_struct_passing_mode(resolver, name) ==
    IF Len(TypeResolver_fold_scalars_of_struct(resolver, name)) > 2
    THEN "ByScalars" ELSE "ByPointer"

(***************************************************************************)
(* SpecTypes: a table is chosen, then the layout queries are asked of it.  *)
(***************************************************************************)
InitTypes ==
    /\ types \in Tables
    /\ query = NoQuery
    /\ BuilderIdle
    /\ LayoutIdle
    /\ LowerIdle

AskPassingMode ==
    \E name \in DOMAIN types.struct_fields :
        /\ query' = [NoQuery EXCEPT !.op = "struct_passing_mode", !.name = name,
                                    !.mode = struct_passing_mode(name)]
        /\ UNCHANGED <<types, notTypesVars>>

AskSizeOfStruct ==
    \E name \in DOMAIN types.struct_fields :
        /\ query' = [NoQuery EXCEPT !.op = "size_of_struct", !.name = name,
                                    !.num = size_of_struct(name)]
        /\ UNCHANGED <<types, notTypesVars>>

AskOffsetOfField ==
    \E name \in DOMAIN types.struct_fields :
        \E field \in 0..(Len(types.struct_fields[name]) - 1) :
            /\ query' = [NoQuery EXCEPT !.op = "offset_of_field", !.name = name,
                                        !.field = field,
                                        !.num = offset_of_field(name, field)]
            /\ UNCHANGED <<types, notTypesVars>>

AskCreateSignature ==
    \E fname \in DOMAIN types.function_types :
        /\ query' = [NoQuery EXCEPT !.op = "create_signature", !.name = fname,
                                    !.sig = create_signature(DefaultCallConv, fname)]
        /\ UNCHANGED <<types, notTypesVars>>

\* TypeResolver::hardcoded(ptr_size).struct_passing_mode(name), asked next to the
\* LookupTable of the same structs
AskResolverPassingMode ==
    \E name \in DOMAIN TypeResolver_hardcoded(PtrSize).struct_fields :
        /\ query' = [NoQuery EXCEPT
                        !.op = "TypeResolver::struct_passing_mode", !.name = name,
                        !.mode = TypeResolver_struct_passing_mode(
                                    TypeResolver_hardcoded(PtrSize), name)]
        /\ UNCHANGED <<types, notTypesVars>>

NextTypes ==
    \/ AskResolverPassingMode
    \/ AskPassingMode
    \/ AskSizeOfStruct
    \/ AskOffsetOfField
    \/ AskCreateSignature

SpecTypes == InitTypes /\ [][NextTypes]_vars

(***************************************************************************)
(* Claims about the LookupTable                                            *)
(***************************************************************************)
\* the leaf scalar fields of a type, counted through nested aggregates
RECURSIVE LeafCount(_)
LeafCount(ty) ==
    IF ty.k = "Int" THEN 1
    ELSE LET fs == types.struct_fields[ty.name]
             Sum[i \in 0..Len(fs)] ==
                IF i = 0 THEN 0 ELSE Sum[i - 1] + LeafCount(fs[i].ty)
         IN  Sum[Len(fs)]

\* C1: struct_passing_mode(A) is ByScalars exactly when A has at most 2 leaf scalar
\* fields counted recursively, and ByPointer otherwise; unit and Point are ByScalars,
\* Player is ByPointer.
C1_PassingModeByLeafCount ==
    query.op = "struct_passing_mode" =>
        /\ query.mode \in {"ByScalars", "ByPointer"}
        /\ (query.mode = "ByScalars") <=> (LeafCount(TypeStruct(query.name)) <= 2)
        /\ query.name \in {"unit", "Point"} => query.mode = "ByScalars"
        /\ query.name = "Player" => query.mode = "ByPointer"

C1_Witness ==
    /\ query.op = "struct_passing_mode"
    /\ query.name = "Custom"
    /\ LeafCount(TypeStruct("Custom")) = 3
    /\ query.mode = "ByPointer"

\* C30: for every aggregate of both tables (Player, Point, unit) the TypeResolver of
\* struct-and-enum answers the passing mode the LookupTable of lowering-structs answers:
\* ByScalars for at most 2 flattened scalars, ByPointer for more.
C30_ResolversAgree ==
    (/\ query.op = "TypeResolver::struct_passing_mode"
     /\ query.name \in DOMAIN types.struct_fields) =>
        /\ query.mode = struct_passing_mode(query.name)
        /\ (query.mode = "ByScalars") <=> (LeafCount(TypeStruct(query.name)) <= 2)

\* how the claims describe one type in a lowered parameter or return list
Replicate(n, x) == [j \in 1..n |-> x]

LoweredParam(ty) ==
    IF ty.k = "Int" THEN <<[value_type |-> "I32", purpose |-> "Normal"]>>
    ELSE IF LeafCount(ty) > 2 THEN <<[value_type |-> "I64", purpose |-> "Normal"]>>
    ELSE Replicate(LeafCount(ty), [value_type |-> "I32", purpose |-> "Normal"])

LoweredParams(tys) ==
    LET Cat[i \in 0..Len(tys)] ==
            IF i = 0 THEN <<>> ELSE Cat[i - 1] \o LoweredParam(tys[i])
    IN  Cat[Len(tys)]

ReturnsByPointer(ty) == ty.k = "Struct" /\ LeafCount(ty) > 2

\* C4: create_signature(f) has the parameters [a StructReturn pointer, only for a
\* ByPointer return] followed per declared parameter by one I32 (Int), one plain
\* pointer (ByPointer aggregate) or one primitive per leaf scalar (ByScalars
\* aggregate); its returns are empty (ByPointer), one I32 (Int) or one primitive per
\* leaf scalar (ByScalars aggregate).
C4_LoweredSignature ==
    query.op = "create_signature" =>
        LET ft == types.function_types[query.name]
        IN  /\ query.sig.params =
                (IF ReturnsByPointer(ft.ret)
                 THEN <<[value_type |-> "I64", purpose |-> "StructReturn"]>>
                 ELSE <<>>) \o LoweredParams(ft.params)
            /\ query.sig.returns =
                (IF ReturnsByPointer(ft.ret) THEN <<>> ELSE LoweredParam(ft.ret))

C4_Witness ==
    /\ query.op = "create_signature"
    /\ query.name = "move_right"
    /\ Len(query.sig.params) = 3
    /\ query.sig.params[1].purpose = "StructReturn"
    /\ query.sig.returns = <<>>

\* the bytes of the leaf scalars of the fields before index i (0-based), 4 per Int
LeafBytesBefore(name, i) ==
    LET fs == types.struct_fields[name]
        Sum[j \in 0..Len(fs)] ==
            IF j = 0 THEN 0 ELSE Sum[j - 1] + 4 * LeafCount(fs[j].ty)
    IN  Sum[i]

\* C8: size_of_struct(A) is the sum of the sizes of A's fields, each flattened to its
\* leaf scalars at 4 bytes per Int, and offset_of_field(A, i) is the sum of the sizes
\* of the fields before i.
C8_NoPaddingSize ==
    /\ query.op = "size_of_struct" =>
            query.num = LeafBytesBefore(query.name, Len(types.struct_fields[query.name]))
    /\ query.op = "offset_of_field" =>
            query.num = LeafBytesBefore(query.name, query.field)

C8_Witness ==
    /\ query.op = "offset_of_field"
    /\ query.name = "Custom"
    /\ query.field = 1
    /\ types.struct_fields["Custom"][1].ty = TypeStruct("Player")
    /\ query.num = 12

\* C9 as stated: offset_of_field(A, i) < offset_of_field(A, i + 1) for every field i
\* that has a successor, and offset_of_field(A, last) + size_of(last field) <=
\* size_of_struct(A).
C9_StrictlyMonotonicOffsets ==
    query.op = "offset_of_field" =>
        LET fs == types.struct_fields[query.name]
        IN  /\ query.field + 1 < Len(fs) =>
                    query.num < offset_of_field(query.name, query.field + 1)
            /\ query.field + 1 = Len(fs) =>
                    query.num + size_of(fs[query.field + 1].ty) <= size_of_struct(query.name)

\* C9 as amended: offsets never decrease, they increase strictly past every field
\* that holds at least one leaf scalar, and the last field ends within the struct.
C9_MonotonicOffsets ==
    query.op = "offset_of_field" =>
        LET fs == types.struct_fields[query.name]
        IN  /\ query.field + 1 < Len(fs) =>
                /\ query.num <= offset_of_field(query.name, query.field + 1)
                /\ LeafCount(fs[query.field + 1].ty) > 0 =>
                        query.num < offset_of_field(query.name, query.field + 1)
            /\ query.field + 1 = Len(fs) =>
                    query.num + size_of(fs[query.field + 1].ty) <= size_of_struct(query.name)

C9_Witness ==
    /\ query.op = "offset_of_field"
    /\ query.name = "Custom"
    /\ query.field = 0
    /\ Len(types.struct_fields["Custom"]) = 2
    /\ types.struct_fields["Custom"][1].ty = TypeStruct("unit")
    /\ query.num = offset_of_field("Custom", 1)

(***************************************************************************)
(* lowering-structs/main.rs and lower.rs: VirtualValue and FuncLower       *)
(*                                                                         *)
(* The lowering is straight-line: no decision of FuncLower depends on a    *)
(* run-time value. The model therefore runs each instruction as it is      *)
(* emitted: a cl::Value is the integer the instruction produces when the   *)
(* function executes, `mem` is the memory of that execution, and `insts`   *)
(* keeps the instructions emitted by the operation in progress.            *)
(***************************************************************************)
\* enum VirtualValue
Scalar(value) ==
    [k |-> "Scalar", value |-> value, type_ |-> "", ptr |-> 0, fields |-> <<>>]
StackStruct(type_, ptr) ==
    [k |-> "StackStruct", value |-> 0, type_ |-> type_, ptr |-> ptr, fields |-> <<>>]
UnstableStruct(type_, vfields) ==
    [k |-> "UnstableStruct", value |-> 0, type_ |-> type_, ptr |-> 0, fields |-> vfields]

\* VirtualValue::unit
unit == UnstableStruct("unit", <<>>)

\* module.isa().pointer_type()
pointer_type == int_with_byte_size(PtrSize)

\* `let x = v; F(x)`: the value of a statement, named once for what follows it
Then(v, F(_)) == F(v)

\* an emitted instruction: opcode, operand values, immediate, result value
Inst(op, args, imm, result) == [op |-> op, args |-> args, imm |-> imm, result |-> result]

\* panic!/expect/unwrap: the first panic aborts the process, nothing runs after it
Panic(S, msg) == IF S.panic = "" THEN [S EXCEPT !.panic = msg] ELSE S

Emit(S, inst) == IF S.panic = "" THEN [S EXCEPT !.insts = Append(@, inst)] ELSE S

\* ins().iconst(I32, n)
ins_iconst(S, n) == [s |-> Emit(S, Inst("iconst", <<>>, n, n)), v |-> n]

\* ins().iadd(x, y) on I32. Every operand of the model is below 2^16, so the 32-bit
\* sum never wraps
ins_iadd(S, x, y) ==
    [s |-> Emit(S, Inst("iadd", <<x, y>>, 0, x + y)), v |-> x + y]

\* ins().iadd_imm(ptr, imm)
ins_iadd_imm(S, ptr, imm) ==
    [s |-> Emit(S, Inst("iadd_imm", <<ptr>>, imm, ptr + imm)), v |-> ptr + imm]

\* ins().load(I32, MemFlags::new(), ptr, offset): a read of bytes never written is
\* recorded in `undef`
ins_load(S, ptr, offset) ==
    LET addr == ptr + offset
        val == IF addr \in DOMAIN S.mem THEN S.mem[addr] ELSE 0
        S1 == Emit(S, Inst("load", <<ptr>>, offset, val))
    IN  [s |-> IF addr \in DOMAIN S.mem \/ S.panic # "" THEN S1
               ELSE [S1 EXCEPT !.undef = TRUE],
         v |-> val]

\* ins().store(MemFlags::new(), value, ptr, offset) of an I32
ins_store(S, value, ptr, offset) ==
    IF S.panic # "" THEN S
    ELSE LET addr == ptr + offset
             S1 == Emit(S, Inst("store", <<value, ptr>>, offset, 0))
         IN  [S1 EXCEPT !.mem = [a \in (DOMAIN S.mem) \cup {addr} |->
                                    IF a = addr THEN value ELSE S.mem[a]]]

\* the address ins().stack_addr(size_t, slot, 0) yields for the k-th slot of a frame:
\* slots are laid out one after another and never overlap
RECURSIVE SlotAddr(_, _, _)
SlotAddr(stack_base, slots, k) ==
    IF k = 1 THEN stack_base ELSE SlotAddr(stack_base, slots, k - 1) + slots[k - 1]

\* mutant: a slot of the wanted size that the frame already has is used again
stack_alloc_struct_reusing(S, name) ==
    IF S.panic # "" THEN [s |-> S, v |-> 0]
    ELSE LET size == size_of_struct(name)
             same == {k \in 1..Len(S.slots) : S.slots[k] = size}
             S1 == IF same = {} THEN [S EXCEPT !.slots = Append(@, size)] ELSE S
             slot == IF same = {} THEN Len(S1.slots)
                     ELSE CHOOSE k \in same : \A j \in same : j <= k
             addr == SlotAddr(S.stack_base, S1.slots, slot)
         IN  [s |-> Emit(S1, Inst("stack_addr", <<>>, slot, addr)), v |-> addr]

\* FuncLower::stack_alloc_struct
stack_alloc_struct(S, name) ==
    IF S.panic # "" THEN [s |-> S, v |-> 0]
    ELSE LET size == size_of_struct(name)
             S1 == [S EXCEPT !.slots = Append(@, size)]
             addr == SlotAddr(S.stack_base, S1.slots, Len(S1.slots))
         IN  [s |-> Emit(S1, Inst("stack_addr", <<>>, Len(S1.slots), addr)), v |-> addr]

RECURSIVE copy_struct_fields_from(_, _, _, _, _)
\* the loop of FuncLower::copy_struct_fields, from field i (0-based) on
copy_struct_fields_from(S, type_, src, dst, i) ==
    IF i >= Len(types.struct_fields[type_]) THEN S
    ELSE LET offset == offset_of_field(type_, i)
             fty == fields_of_struct(type_)[i + 1].ty
             S1 == CASE fty.k = "Unit" -> S
                     [] fty.k = "Int" ->
                            LET n == ins_load(S, src, offset)
                            IN  ins_store(n.s, n.v, dst, offset)
                     [] fty.k = "Struct" ->
                            LET nsrc == ins_iadd_imm(S, src, offset)
                                ndst == ins_iadd_imm(nsrc.s, dst, offset)
                            IN  copy_struct_fields_from(ndst.s, fty.name, nsrc.v, ndst.v, 0)
         IN  copy_struct_fields_from(S1, type_, src, dst, i + 1)

\* mutant: only the scalar fields of the outermost struct are copied
copy_struct_fields_shallow(S, type_, src, dst) ==
    LET fs == fields_of_struct(type_)
        Copy[i \in 0..Len(fs)] ==
            IF i = 0 THEN S
            ELSE IF fs[i].ty.k = "Int"
            THEN LET n == ins_load(Copy[i - 1], src, offset_of_field(type_, i - 1))
                 IN  ins_store(n.s, n.v, dst, offset_of_field(type_, i - 1))
            ELSE Copy[i - 1]
    IN  Copy[Len(fs)]

\* FuncLower::copy_struct_fields
copy_struct_fields(S, type_, src, dst) == copy_struct_fields_from(S, type_, src, dst, 0)

RECURSIVE write_struct_field(_, _, _, _, _), write_unstable_fields(_, _, _, _, _, _)
\* FuncLower::write_struct_field
write_struct_field(S, name, field, ptr, v) ==
    LET offset == offset_of_field(name, field)
    IN  CASE v.k = "Scalar" -> ins_store(S, v.value, ptr, offset)
          [] v.k = "UnstableStruct" ->
                write_unstable_fields(S, v.type_, v.fields, ptr, offset, 0)
          [] v.k = "StackStruct" ->
                LET nptr == ins_iadd_imm(S, ptr, offset)
                IN  copy_struct_fields(nptr.s, v.type_, v.ptr, nptr.v)

\* the UnstableStruct arm of write_struct_field: the loop over the nested fields,
\* from field i (0-based) on
write_unstable_fields(S, type_, vfields, ptr, offset, i) ==
    IF i >= Len(vfields) THEN S
    ELSE LET nptr == ins_iadd_imm(S, ptr, offset)
             S1 == write_struct_field(nptr.s, type_, i, nptr.v, vfields[i + 1])
         IN  write_unstable_fields(S1, type_, vfields, ptr, offset, i + 1)

\* `for (field, v) in fields.into_iter().enumerate() { write_struct_field(..) }`,
\* from field i (0-based) on
RECURSIVE write_all_fields(_, _, _, _, _)
write_all_fields(S, type_, vfields, ptr, i) ==
    IF i >= Len(vfields) THEN S
    ELSE write_all_fields(write_struct_field(S, type_, i, ptr, vfields[i + 1]),
                          type_, vfields, ptr, i + 1)

RECURSIVE deref_fields_from(_, _, _, _, _, _)
\* the loop of FuncLower::deref_fields, from field i (0-based) on
deref_fields_from(S, buf, type_, src, src_offset, i) ==
    IF i >= Len(types.struct_fields[type_]) THEN [s |-> S, buf |-> buf]
    ELSE LET offset == offset_of_field(type_, i) + src_offset
             fty == type_of_field(type_, i)
         IN  Then(CASE fty.k = "Unit" -> [s |-> S, buf |-> buf]
                    [] fty.k = "Int" ->
                            LET l == ins_load(S, src, offset)
                            IN  [s |-> l.s, buf |-> Append(buf, l.v)]
                    [] fty.k = "Struct" ->
                            deref_fields_from(S, buf, fty.name, src, offset, 0),
                  LAMBDA r : deref_fields_from(r.s, r.buf, type_, src, src_offset, i + 1))

\* FuncLower::deref_fields
deref_fields(S, buf, type_, src, src_offset) ==
    deref_fields_from(S, buf, type_, src, src_offset, 0)

\* FunctionBuilder::append_block_param: the k-th block parameter of the entry block
\* holds the k-th incoming argument of the activation
append_block_param(S, clty) ==
    IF S.panic # "" THEN [s |-> S, v |-> 0]
    ELSE LET k == Len(S.block_params) + 1
             val == IF k <= Len(S.args) THEN S.args[k] ELSE 0
             S1 == [S EXCEPT !.block_params = Append(@, [ty |-> clty, value |-> val])]
         IN  [s |-> IF k <= Len(S.args) THEN S1 ELSE [S1 EXCEPT !.undef = TRUE],
              v |-> val]

\* register_returns.next().unwrap() of call_func
register_returns_next(S) ==
    IF S.panic # "" THEN [s |-> S, v |-> 0]
    ELSE IF S.register_returns = <<>>
    THEN [s |-> Panic(S, "unwrap on None"), v |-> 0]
    ELSE [s |-> [S EXCEPT !.register_returns = Tail(@)], v |-> Head(S.register_returns)]

\* the closure f of type_to_virtual_value: append_block_param (type_to_block_params)
\* or the next register return (call_func)
value_source(S, src, clty) ==
    IF src = "block_params" THEN append_block_param(S, clty)
    ELSE register_returns_next(S)

RECURSIVE type_to_virtual_value(_, _, _, _), type_to_virtual_values_from(_, _, _, _)
\* FuncLower::type_to_virtual_value
type_to_virtual_value(S, src, is_root, p) ==
    CASE p.k = "Unit" -> [s |-> S, v |-> unit]
      [] p.k = "Int" ->
            LET r == value_source(S, src, "I32")
            IN  [s |-> r.s, v |-> Scalar(r.v)]
      [] p.k = "Struct" ->
            IF is_root /\ struct_passing_mode(p.name) = "ByPointer"
            THEN LET r == value_source(S, src, pointer_type)
                 IN  [s |-> r.s, v |-> StackStruct(p.name, r.v)]
            ELSE Then(type_to_virtual_values_from(S, src, fields_of_struct(p.name), 1),
                      LAMBDA r : [s |-> r.s, v |-> UnstableStruct(p.name, r.vs)])

\* `.map(|(_, _, ty)| self.type_to_virtual_value(f, false, ty)).collect()`, from the
\* i-th (1-based) field on
type_to_virtual_values_from(S, src, fs, i) ==
    IF i > Len(fs) THEN [s |-> S, vs |-> <<>>]
    ELSE Then(type_to_virtual_value(S, src, FALSE, fs[i].ty), LAMBDA r :
            Then(type_to_virtual_values_from(r.s, src, fs, i + 1), LAMBDA rest :
                [s |-> rest.s, vs |-> <<r.v>> \o rest.vs]))

\* Signature::uses_struct_return_param
uses_struct_return_param(sig) ==
    \E i \in 1..Len(sig.params) : sig.params[i].purpose = "StructReturn"

\* `params.iter().map(|&p| self.type_to_block_params(block, true, p)).collect()`, from
\* the i-th (1-based) parameter on
RECURSIVE type_to_block_params_from(_, _, _)
type_to_block_params_from(S, params, i) ==
    IF i > Len(params) THEN [s |-> S, vs |-> <<>>]
    ELSE Then(type_to_virtual_value(S, "block_params", TRUE, params[i]), LAMBDA r :
            Then(type_to_block_params_from(r.s, params, i + 1), LAMBDA rest :
                [s |-> rest.s, vs |-> <<r.v>> \o rest.vs]))

\* mutant: the struct-return pointer is not given a block parameter
create_entry_block_without_sret(S, params) ==
    type_to_block_params_from(S, params, 1)

\* FuncLower::create_entry_block
create_entry_block(S, params) ==
    LET S1 == IF uses_struct_return_param(S.sig)
              THEN append_block_param(S, pointer_type).s
              ELSE S
    IN  type_to_block_params_from(S1, params, 1)

RECURSIVE virtual_value_to_func_params(_, _, _), virtual_values_to_func_params_from(_, _, _, _)
\* mutant: a StackStruct passed by pointer is copied to a stack slot of its own
virtual_value_to_func_params_copying(S, buf, v) ==
    CASE v.k = "Scalar" -> [s |-> S, buf |-> Append(buf, v.value)]
      [] v.k = "StackStruct" ->
            IF struct_passing_mode(v.type_) = "ByScalars"
            THEN deref_fields(S, buf, v.type_, v.ptr, 0)
            ELSE Then(stack_alloc_struct(S, v.type_), LAMBDA ptr :
                    [s |-> copy_struct_fields(ptr.s, v.type_, v.ptr, ptr.v),
                     buf |-> Append(buf, ptr.v)])
      [] v.k = "UnstableStruct" ->
            IF struct_passing_mode(v.type_) = "ByScalars"
            THEN virtual_values_to_func_params_from(S, buf, v.fields, 1)
            ELSE Then(stack_alloc_struct(S, v.type_), LAMBDA ptr :
                    [s |-> write_all_fields(ptr.s, v.type_, v.fields, ptr.v, 0),
                     buf |-> Append(buf, ptr.v)])

\* FuncLower::virtual_value_to_func_params
virtual_value_to_func_params(S, buf, v) ==
    CASE v.k = "Scalar" -> [s |-> S, buf |-> Append(buf, v.value)]
      [] v.k = "StackStruct" ->
            IF struct_passing_mode(v.type_) = "ByScalars"
            THEN deref_fields(S, buf, v.type_, v.ptr, 0)
            ELSE [s |-> S, buf |-> Append(buf, v.ptr)]
      [] v.k = "UnstableStruct" ->
            IF struct_passing_mode(v.type_) = "ByScalars"
            THEN virtual_values_to_func_params_from(S, buf, v.fields, 1)
            ELSE Then(stack_alloc_struct(S, v.type_), LAMBDA ptr :
                    [s |-> write_all_fields(ptr.s, v.type_, v.fields, ptr.v, 0),
                     buf |-> Append(buf, ptr.v)])

\* the loop of FuncLower::virtual_values_to_func_params, from the i-th (1-based) on
virtual_values_to_func_params_from(S, buf, vs, i) ==
    IF i > Len(vs) THEN [s |-> S, buf |-> buf]
    ELSE Then(virtual_value_to_func_params(S, buf, vs[i]), LAMBDA r :
            virtual_values_to_func_params_from(r.s, r.buf, vs, i + 1))

\* FuncLower::virtual_values_to_func_params
virtual_values_to_func_params(S, buf, vs) ==
    virtual_values_to_func_params_from(S, buf, vs, 1)

\* FuncLower::struct_return_pointer: Function::special_param(StructReturn), the entry
\* block parameter at the index of the signature's StructReturn parameter
struct_return_pointer(S) ==
    IF uses_struct_return_param(S.sig)
    THEN LET i == CHOOSE i \in 1..Len(S.sig.params) :
                        S.sig.params[i].purpose = "StructReturn"
         IN  [s |-> S, v |-> S.block_params[i].value]
    ELSE [s |-> Panic(S, "current function does not return large struct"), v |-> 0]

\* ins().return_(values)
ins_return(S, values) ==
    IF S.panic # "" THEN S
    ELSE [Emit(S, Inst("return", values, 0, 0)) EXCEPT
            !.returned = TRUE, !.ret_values = values]

\* FuncLower::int
int(S, n) ==
    LET v == ins_iconst(S, n)
    IN  [s |-> v.s, v |-> Scalar(v.v)]

\* `fields.iter().find_map(..)` of construct_struct: the first supplied pair called
\* fname, if any
find_field(supplied, fname) ==
    LET hits == {i \in 1..Len(supplied) : supplied[i].name = fname}
    IN  IF hits = {} THEN <<>>
        ELSE <<supplied[CHOOSE i \in hits : \A j \in hits : i <= j].v>>

\* mutant: the supplied values are taken in the order given, whatever their names
construct_struct_positional(S, type_, supplied) ==
    LET fs == fields_of_struct(type_)
    IN  IF Len(supplied) < Len(fs)
        THEN [s |-> Panic(S, "missing field in struct constructor"), v |-> unit]
        ELSE [s |-> S,
              v |-> UnstableStruct(type_, [i \in 1..Len(fs) |-> supplied[i].v])]

\* mutant: a declared field that is not supplied becomes the unit value
construct_struct_unit_for_missing(S, type_, supplied) ==
    LET fs == fields_of_struct(type_)
    IN  [s |-> S,
         v |-> UnstableStruct(type_,
                    [i \in 1..Len(fs) |->
                        IF find_field(supplied, fs[i].name) = <<>> THEN unit
                        ELSE find_field(supplied, fs[i].name)[1]])]

\* mutant: the struct is given a stack slot as soon as it is constructed
construct_struct_on_stack(S, type_, supplied) ==
    LET fs == fields_of_struct(type_)
        missing == \E i \in 1..Len(fs) : find_field(supplied, fs[i].name) = <<>>
    IN  IF missing
        THEN [s |-> Panic(S, "missing field in struct constructor"), v |-> unit]
        ELSE [s |-> stack_alloc_struct(S, type_).s,
              v |-> UnstableStruct(type_,
                        [i \in 1..Len(fs) |-> find_field(supplied, fs[i].name)[1]])]

\* FuncLower::construct_struct
construct_struct(S, type_, supplied) ==
    LET fs == fields_of_struct(type_)
        missing == \E i \in 1..Len(fs) : find_field(supplied, fs[i].name) = <<>>
    IN  IF missing
        THEN [s |-> Panic(S, "missing field in struct constructor"), v |-> unit]
        ELSE [s |-> S,
              v |-> UnstableStruct(type_,
                        [i \in 1..Len(fs) |-> find_field(supplied, fs[i].name)[1]])]

\* mutant: a scalar field of a StackStruct is loaded from the start of the struct
destruct_field_at_start(S, of, field) ==
    CASE of.k = "Scalar" ->
            [s |-> Panic(S, "cannot destruct field from non-struct"), v |-> unit]
      [] of.k = "UnstableStruct" -> [s |-> S, v |-> of.fields[field + 1]]
      [] of.k = "StackStruct" ->
            LET offset == offset_of_field(of.type_, field)
                fty == type_of_field(of.type_, field)
            IN  IF fty.k = "Struct"
                THEN LET nptr == ins_iadd_imm(S, of.ptr, offset)
                     IN  [s |-> nptr.s, v |-> StackStruct(fty.name, nptr.v)]
                ELSE LET l == ins_load(S, of.ptr, 0)
                     IN  [s |-> l.s, v |-> Scalar(l.v)]

\* mutant: the field of a Scalar is the Scalar
destruct_field_of_scalar_is_scalar(S, of, field) ==
    CASE of.k = "Scalar" -> [s |-> S, v |-> of]
      [] of.k = "StackStruct" ->
            LET offset == offset_of_field(of.type_, field)
                fty == type_of_field(of.type_, field)
            IN  (CASE fty.k = "Struct" ->
                        LET nptr == ins_iadd_imm(S, of.ptr, offset)
                        IN  [s |-> nptr.s, v |-> StackStruct(fty.name, nptr.v)]
                   [] fty.k = "Unit" -> [s |-> S, v |-> unit]
                   [] fty.k = "Int" ->
                        LET l == ins_load(S, of.ptr, offset)
                        IN  [s |-> l.s, v |-> Scalar(l.v)])
      [] of.k = "UnstableStruct" -> [s |-> S, v |-> of.fields[field + 1]]

\* mutant: the pointer to a nested struct is the pointer to the outer struct
destruct_field_nested_at_base(S, of, field) ==
    CASE of.k = "Scalar" ->
            [s |-> Panic(S, "cannot destruct field from non-struct"), v |-> unit]
      [] of.k = "StackStruct" ->
            LET offset == offset_of_field(of.type_, field)
                fty == type_of_field(of.type_, field)
            IN  (CASE fty.k = "Struct" ->
                        LET nptr == ins_iadd_imm(S, of.ptr, 0)
                        IN  [s |-> nptr.s, v |-> StackStruct(fty.name, nptr.v)]
                   [] fty.k = "Unit" -> [s |-> S, v |-> unit]
                   [] fty.k = "Int" ->
                        LET l == ins_load(S, of.ptr, offset)
                        IN  [s |-> l.s, v |-> Scalar(l.v)])
      [] of.k = "UnstableStruct" -> [s |-> S, v |-> of.fields[field + 1]]

\* FuncLower::destruct_field
destruct_field(S, of, field) ==
    CASE of.k = "Scalar" ->
            [s |-> Panic(S, "cannot destruct field from non-struct"), v |-> unit]
      [] of.k = "StackStruct" ->
            LET offset == offset_of_field(of.type_, field)
                fty == type_of_field(of.type_, field)
            IN  (CASE fty.k = "Struct" ->
                        LET nptr == ins_iadd_imm(S, of.ptr, offset)
                        IN  [s |-> nptr.s, v |-> StackStruct(fty.name, nptr.v)]
                   [] fty.k = "Unit" -> [s |-> S, v |-> unit]
                   [] fty.k = "Int" ->
                        LET l == ins_load(S, of.ptr, offset)
                        IN  [s |-> l.s, v |-> Scalar(l.v)])
      [] of.k = "UnstableStruct" -> [s |-> S, v |-> of.fields[field + 1]]

\* VirtualValue::as_scalar
as_scalar(S, v) ==
    IF v.k = "Scalar" THEN [s |-> S, v |-> v.value]
    ELSE [s |-> Panic(S, "not an scalar value"), v |-> 0]

\* `fields.iter().map(VirtualValue::as_scalar).collect()`: as_scalar panics on the
\* first field that is not a Scalar
as_scalars(S, vfields) ==
    IF \E i \in 1..Len(vfields) : vfields[i].k # "Scalar"
    THEN [s |-> Panic(S, "not an scalar value"), vs |-> <<>>]
    ELSE [s |-> S, vs |-> [i \in 1..Len(vfields) |-> vfields[i].value]]

\* FuncLower::return_
return_(S, vv) ==
    CASE vv.k = "Scalar" -> ins_return(S, <<vv.value>>)
      [] vv.k = "StackStruct" ->
            IF struct_passing_mode(vv.type_) = "ByScalars"
            THEN Then(deref_fields(S, <<>>, vv.type_, vv.ptr, 0), LAMBDA r :
                    ins_return(r.s, r.buf))
            ELSE Then(struct_return_pointer(S), LAMBDA dst :
                    ins_return(copy_struct_fields(dst.s, vv.type_, vv.ptr, dst.v), <<>>))
      [] vv.k = "UnstableStruct" ->
            IF struct_passing_mode(vv.type_) = "ByScalars"
            THEN Then(as_scalars(S, vv.fields), LAMBDA r : ins_return(r.s, r.vs))
            ELSE Then(struct_return_pointer(S), LAMBDA dst :
                    ins_return(write_all_fields(dst.s, vv.type_, vv.fields, dst.v, 0), <<>>))

\* the first half of call_func: `out_ptr_return` and the `call_params` it starts with
call_func_out_ptr(S, func) ==
    LET ret == return_type_of(func)
    IN  IF ret.k = "Struct" /\ struct_passing_mode(ret.name) = "ByPointer"
        THEN Then(stack_alloc_struct(S, ret.name), LAMBDA ptr :
                [s |-> ptr.s, call_params |-> <<ptr.v>>,
                 out_ptr_return |-> <<StackStruct(ret.name, ptr.v)>>])
        ELSE [s |-> S, call_params |-> <<>>, out_ptr_return |-> <<>>]

\* mutant: the out pointer is pushed after the marshalled arguments
call_func_marshal_out_last(S, func, params) ==
    Then(call_func_out_ptr(S, func), LAMBDA o :
        Then(virtual_values_to_func_params(o.s, <<>>, params), LAMBDA m :
            [s |-> Emit(m.s, Inst("call", m.buf \o o.call_params, func, 0)),
             out_ptr_return |-> o.out_ptr_return,
             call_params |-> m.buf \o o.call_params]))

\* FuncLower::call_func up to and including the call instruction
call_func_marshal(S, func, params) ==
    Then(call_func_out_ptr(S, func), LAMBDA o :
        Then(virtual_values_to_func_params(o.s, o.call_params, params), LAMBDA m :
            [s |-> Emit(m.s, Inst("call", m.buf, func, 0)),
             out_ptr_return |-> o.out_ptr_return,
             call_params |-> m.buf]))

\* FuncLower::call_func after the call instruction: the value handed back
call_func_result(S, func, out_ptr_return) ==
    IF out_ptr_return # <<>> THEN [s |-> S, v |-> out_ptr_return[1]]
    ELSE type_to_virtual_value(S, "register_returns", FALSE, return_type_of(func))

\* what executing the call instruction does when the callee is not itself followed:
\* a callee lowered by FuncLower returns one value per return of its signature and,
\* for a StructReturn signature, stores every leaf scalar of its result through the
\* pointer it is given first; the values themselves are the callee's business (base)
callee_effect(S, func, call_params, base) ==
    IF S.panic # "" THEN S
    ELSE LET sig == create_signature(DefaultCallConv, types.function_names[func])
             words == IF uses_struct_return_param(sig)
                      THEN size_of(return_type_of(func)) \div 4 ELSE 0
             written == {call_params[1] + 4 * w : w \in 0..(words - 1)}
         IN  [S EXCEPT
                !.register_returns = [j \in 1..Len(sig.returns) |-> base + j],
                !.mem = [a \in (DOMAIN S.mem) \cup written |->
                            IF a \in written THEN base + 10 + ((a - call_params[1]) \div 4)
                            ELSE S.mem[a]]]

\* FuncLower::call_func
call_func(S, func, params, base) ==
    Then(call_func_marshal(S, func, params), LAMBDA m :
        Then(call_func_result(callee_effect(m.s, func, m.call_params, base),
                              func, m.out_ptr_return), LAMBDA r :
            [s |-> r.s, v |-> r.v, call_params |-> m.call_params]))

(***************************************************************************)
(* Spec: one function body is lowered by any sequence of FuncLower         *)
(* operations on the values it holds.                                      *)
(***************************************************************************)
\* where the caller of the function being lowered keeps the destination of a
\* StructReturn result and the aggregates it passes by pointer
RetBase == 2000
ParamBase == 3000
ParamStride == 64

\* the arguments an activation of the function is entered with, one per parameter of its
\* lowered signature: integers 101, 102, .., and for pointers the caller's addresses
IncomingArgs(sig) ==
    [k \in 1..Len(sig.params) |->
        IF sig.params[k].purpose = "StructReturn" THEN RetBase
        ELSE IF sig.params[k].value_type = pointer_type THEN ParamBase + ParamStride * k
        ELSE 100 + k]

\* the memory the activation is entered with: the caller has stored every aggregate
\* it passes by pointer (word w of argument k holds 200 + 16k + w), the destination
\* of the result is not written yet
IncomingMem(sig) ==
    LET ptrs == {k \in 1..Len(sig.params) :
                    /\ sig.params[k].purpose # "StructReturn"
                    /\ sig.params[k].value_type = pointer_type}
        addrs == {ParamBase + ParamStride * k + 4 * w : k \in ptrs, w \in 0..15}
    IN  [a \in addrs |->
            LET k == (a - ParamBase) \div ParamStride
                w == ((a - ParamBase) % ParamStride) \div 4
            IN  200 + 16 * k + w]

\* the integer literals a body may mention
IntChoices == {5, 10}

\* the base of the values a callee hands back
CalleeValues == {300}

\* the source Type a VirtualValue stands for
TypeOfValue(v) == IF v.k = "Scalar" THEN TypeInt ELSE TypeStruct(v.type_)

\* what user_fn returns in Spec
UserFnReturns == {TypeStruct("Custom"), TypeStruct("Point")}

\* the tables of Spec: Custom varies, user_fn takes Customs and returns a Custom or a
\* Point
Init ==
    /\ types \in {t \in Tables :
                    /\ t.function_types["user_fn"].ret \in UserFnReturns
                    /\ \A i \in 1..Len(t.function_types["user_fn"].params) :
                            t.function_types["user_fn"].params[i] = TypeStruct("Custom")
                    /\ Len(t.function_types["user_fn"].params) = MaxParams}
    /\ query = NoQuery
    /\ LayoutIdle
    /\ BuilderIdle
    /\ cur_fn \in DOMAIN types.function_types
    /\ nops = 0
    /\ lower = LET sig == create_signature(DefaultCallConv, cur_fn)
               IN  NewFuncLower(sig, IncomingArgs(sig), IncomingMem(sig))
    /\ vals = {}
    /\ pc = "new"
    /\ last = NoOp
    /\ MainIdle

\* the start of an operation: the instructions of the previous one are history
Fresh(S) == [S EXCEPT !.insts = <<>>]

Next_pc(S) == IF S.panic # "" THEN "aborted" ELSE IF S.returned THEN "returned" ELSE "body"

\* lower.create_entry_block(params) with the declared parameters of cur_fn
CreateEntryBlock ==
    /\ pc = "new"
    /\ \E r \in {create_entry_block(Fresh(lower), types.function_types[cur_fn].params)} :
           /\ lower' = r.s
           /\ vals' = {r.vs[i] : i \in 1..Len(r.vs)}
           /\ last' = [NoOp EXCEPT !.op = "create_entry_block", !.result = r.vs,
                                   !.before = lower]
           /\ pc' = Next_pc(r.s)
    /\ UNCHANGED <<cur_fn, nops, notLowerVars>>

\* lower.int(n)
IntOp ==
    /\ pc = "body" /\ nops < MaxOps
    /\ \E n \in IntChoices :
        \E r \in {int(Fresh(lower), n)} :
            /\ lower' = r.s
            /\ vals' = vals \cup {r.v}
            /\ last' = [NoOp EXCEPT !.op = "int", !.field = n, !.result = <<r.v>>,
                                    !.before = lower]
            /\ pc' = Next_pc(r.s)
    /\ nops' = nops + 1
    /\ UNCHANGED <<cur_fn, notLowerVars>>

\* the orders a list of n (name, value) pairs can be supplied in
Orders(n) == {p \in [1..n -> 1..n] : \A i, j \in 1..n : p[i] = p[j] => i = j}

\* seq without its k-th element; seq itself for k = 0
Without(seq, k) ==
    [i \in 1..(Len(seq) - (IF k = 0 THEN 0 ELSE 1)) |->
        IF k = 0 \/ i < k THEN seq[i] ELSE seq[i + 1]]

\* lower.construct_struct(type_, supplied): the declared fields are supplied by name
\* with held values of the fields' types, in any order, all of them or all but one
ConstructStruct ==
    /\ pc = "body" /\ nops < MaxOps
    /\ \E type_ \in DOMAIN types.struct_fields :
        LET fs == types.struct_fields[type_]
        IN  \E pick \in [1..Len(fs) -> vals] :
            \E order \in Orders(Len(fs)) :
            \E dropped \in 0..Len(fs) :
                /\ \A i \in 1..Len(fs) : TypeOfValue(pick[i]) = fs[i].ty
                /\ LET declared == [i \in 1..Len(fs) |-> [name |-> fs[i].name, v |-> pick[i]]]
                       supplied == Without([i \in 1..Len(fs) |-> declared[order[i]]], dropped)
                   IN  \E r \in {construct_struct(Fresh(lower), type_, supplied)} :
                       /\ lower' = r.s
                       /\ vals' = IF r.s.panic = "" THEN vals \cup {r.v} ELSE vals
                       /\ last' = [NoOp EXCEPT !.op = "construct_struct", !.type_ = type_,
                                               !.supplied = supplied,
                                               !.result = IF r.s.panic = "" THEN <<r.v>>
                                                          ELSE <<>>,
                                               !.before = lower]
                       /\ pc' = Next_pc(r.s)
    /\ nops' = nops + 1
    /\ UNCHANGED <<cur_fn, notLowerVars>>

\* lower.destruct_field(of, field) for a held value: a field of a held aggregate, or
\* any field index of a held Scalar
DestructField ==
    /\ pc = "body" /\ nops < MaxOps
    /\ \E of \in vals :
        \E field \in IF of.k = "Scalar" THEN 0..(MaxFields - 1)
                     ELSE 0..(Len(types.struct_fields[of.type_]) - 1) :
            \E r \in {destruct_field(Fresh(lower), of, field)} :
                /\ lower' = r.s
                /\ vals' = IF r.s.panic = "" THEN vals \cup {r.v} ELSE vals
                /\ last' = [NoOp EXCEPT !.op = "destruct_field", !.arg = of,
                                        !.field = field,
                                        !.result = IF r.s.panic = "" THEN <<r.v>> ELSE <<>>,
                                        !.before = lower]
                /\ pc' = Next_pc(r.s)
    /\ nops' = nops + 1
    /\ UNCHANGED <<cur_fn, notLowerVars>>

\* lower.call_func(func, params) with held values of the callee's parameter types
CallFunc ==
    /\ pc = "body" /\ nops < MaxOps
    /\ \E func \in DOMAIN types.function_names :
        LET ptys == types.function_types[types.function_names[func]].params
        IN  \E params \in [1..Len(ptys) -> vals] :
            \E base \in CalleeValues :
                /\ \A i \in 1..Len(ptys) : TypeOfValue(params[i]) = ptys[i]
                /\ \E r \in {call_func(Fresh(lower), func, params, base)} :
                       /\ lower' = r.s
                       /\ vals' = vals \cup {r.v}
                       /\ last' = [NoOp EXCEPT !.op = "call_func", !.func = func,
                                               !.params = params, !.result = <<r.v>>,
                                               !.call_params = r.call_params,
                                               !.before = lower]
                       /\ pc' = Next_pc(r.s)
    /\ nops' = nops + 1
    /\ UNCHANGED <<cur_fn, notLowerVars>>

\* lower.return_(vv) for a held value
Return ==
    /\ pc = "body" /\ nops < MaxOps
    /\ \E vv \in vals :
        \E S \in {return_(Fresh(lower), vv)} :
            /\ lower' = S
            /\ last' = [NoOp EXCEPT !.op = "return_", !.arg = vv,
                                    !.before = lower]
            /\ pc' = Next_pc(S)
    /\ nops' = nops + 1
    /\ UNCHANGED <<cur_fn, vals, notLowerVars>>

Next ==
    \/ CreateEntryBlock
    \/ IntOp
    \/ ConstructStruct
    \/ DestructField
    \/ CallFunc
    \/ Return

Spec == Init /\ [][Next]_vars

(***************************************************************************)
(* Claims on FuncLower, checked under Spec.                                *)
(***************************************************************************)
\* the leaf scalars a VirtualValue stands for, in declaration order: a Scalar is its
\* value, an UnstableStruct the leaves of its fields, a StackStruct the I32 words that
\* memory holds from its pointer on
RECURSIVE Leaves(_, _)
Leaves(mem, v) ==
    CASE v.k = "Scalar" -> <<v.value>>
      [] v.k = "StackStruct" ->
            [j \in 1..LeafCount(TypeStruct(v.type_)) |-> mem[v.ptr + 4 * (j - 1)]]
      [] v.k = "UnstableStruct" ->
            LET Cat[i \in 0..Len(v.fields)] ==
                    IF i = 0 THEN <<>> ELSE Cat[i - 1] \o Leaves(mem, v.fields[i])
            IN  Cat[Len(v.fields)]

\* what destructuring every field of v, and every field of those, yields: the scalars
\* destruct_field arrives at, in declaration order
RECURSIVE Observe(_, _)
Observe(S, v) ==
    IF v.k = "Scalar" THEN <<v.value>>
    ELSE LET n == Len(types.struct_fields[v.type_])
             Cat[i \in 0..n] ==
                IF i = 0 THEN <<>>
                ELSE Cat[i - 1] \o Observe(S, destruct_field(S, v, i - 1).v)
         IN  Cat[n]

IsAggregate(v) == v.k \in {"StackStruct", "UnstableStruct"}

PassedByPointer(v) == IsAggregate(v) /\ struct_passing_mode(v.type_) = "ByPointer"

PassedByScalars(v) == IsAggregate(v) /\ struct_passing_mode(v.type_) = "ByScalars"

ReturnsLarge(func) ==
    /\ return_type_of(func).k = "Struct"
    /\ struct_passing_mode(return_type_of(func).name) = "ByPointer"

\* the stack slot call_func gave to its i-th argument, an UnstableStruct passed by
\* pointer: slots are created in order, the destination of a large return first
MaterialisedAt(i) ==
    LET earlier == {j \in 1..i : last.params[j].k = "UnstableStruct"
                                    /\ PassedByPointer(last.params[j])}
        slot == Len(last.before.slots) + (IF ReturnsLarge(last.func) THEN 1 ELSE 0)
                    + Cardinality(earlier)
    IN  SlotAddr(lower.stack_base, lower.slots, slot)

\* the struct-return pointer the activation was entered with
SretArg(S) ==
    S.args[CHOOSE i \in 1..Len(S.sig.params) : S.sig.params[i].purpose = "StructReturn"]

\* C3: construct_struct followed by destruct_field(i) gives back the value supplied for
\* field i, without emitting an instruction, while the aggregate is an UnstableStruct;
\* and once call_func has written the aggregate to a stack slot, destructuring the
\* StackStruct at that slot arrives at the same scalars as destructuring the input
C3_RoundTrip ==
    /\ (last.op = "construct_struct" /\ lower.panic = "") =>
            LET fs == fields_of_struct(last.type_)
                v == last.result[1]
            IN  /\ v.k = "UnstableStruct"
                /\ \A i \in 1..Len(fs) : \A k \in 1..Len(last.supplied) :
                        last.supplied[k].name = fs[i].name =>
                            /\ destruct_field(lower, v, i - 1).v = last.supplied[k].v
                            /\ destruct_field(lower, v, i - 1).s = lower
    /\ (last.op = "destruct_field" /\ last.arg.k = "UnstableStruct") =>
            /\ last.result = <<last.arg.fields[last.field + 1]>>
            /\ lower.insts = <<>>
    /\ (last.op = "call_func" /\ lower.panic = "") =>
            \A i \in 1..Len(last.params) :
                (last.params[i].k = "UnstableStruct" /\ PassedByPointer(last.params[i])) =>
                    /\ \E c \in 1..Len(last.call_params) :
                            last.call_params[c] = MaterialisedAt(i)
                    /\ Observe(lower, StackStruct(last.params[i].type_, MaterialisedAt(i)))
                            = Observe(last.before, last.params[i])

\* an aggregate built by construct_struct, one of its fields an aggregate itself, has
\* been written to a stack slot by call_func
C3_Witness ==
    /\ last.op = "call_func" /\ lower.panic = ""
    /\ \E i \in 1..Len(last.params) :
            /\ last.params[i].k = "UnstableStruct" /\ PassedByPointer(last.params[i])
            /\ \E f \in 1..Len(last.params[i].fields) : IsAggregate(last.params[i].fields[f])
            /\ Len(Observe(last.before, last.params[i])) >= 3

\* C5: call_func of a function whose return type is a ByPointer aggregate creates a
\* stack slot of the size of that aggregate, passes its address as the first argument of
\* the call, before the marshalled arguments, and hands back the StackStruct at that
\* address
C5_CallLargeReturn ==
    (last.op = "call_func" /\ ReturnsLarge(last.func)) =>
        LET ret == return_type_of(last.func)
            slot == Len(last.before.slots) + 1
            addr == SlotAddr(lower.stack_base, lower.slots, slot)
            marshalled == virtual_values_to_func_params(
                            stack_alloc_struct(Fresh(last.before), ret.name).s,
                            <<>>, last.params).buf
        IN  /\ lower.panic = ""
            /\ Len(lower.slots) >= slot
            /\ lower.slots[slot] = size_of(ret)
            /\ last.call_params = <<addr>> \o marshalled
            /\ lower.insts[Len(lower.insts)] = Inst("call", last.call_params, last.func, 0)
            /\ last.result = <<StackStruct(ret.name, addr)>>

\* a call of a function returning a ByPointer aggregate that takes arguments
C5_Witness ==
    /\ last.op = "call_func" /\ ReturnsLarge(last.func) /\ lower.panic = ""
    /\ Len(last.call_params) >= 2
    /\ last.result[1].k = "StackStruct"

\* C6: in a function that has a struct-return pointer, return_ of a ByPointer aggregate,
\* StackStruct or UnstableStruct, stores the j-th leaf scalar of the aggregate 4(j-1)
\* bytes from that pointer and then returns no values
C6_ReturnByPointer ==
    (last.op = "return_" /\ PassedByPointer(last.arg)
        /\ uses_struct_return_param(lower.sig)) =>
        LET leaves == Leaves(last.before.mem, last.arg)
            dst == SretArg(lower)
        IN  /\ lower.panic = ""
            /\ lower.returned
            /\ lower.ret_values = <<>>
            /\ lower.insts[Len(lower.insts)] = Inst("return", <<>>, 0, 0)
            /\ Len(leaves) = LeafCount(TypeStruct(last.arg.type_))
            /\ \A j \in 1..Len(leaves) :
                    /\ (dst + 4 * (j - 1)) \in DOMAIN lower.mem
                    /\ lower.mem[dst + 4 * (j - 1)] = leaves[j]

\* a ByPointer UnstableStruct with an aggregate field has been returned
C6_Witness ==
    /\ last.op = "return_" /\ PassedByPointer(last.arg) /\ lower.returned
    /\ uses_struct_return_param(lower.sig)
    /\ last.arg.k = "UnstableStruct"
    /\ \E f \in 1..Len(last.arg.fields) : IsAggregate(last.arg.fields[f])

C7_ReturnMirrorsParams ==
    (last.op = "return_" /\ PassedByScalars(last.arg)) =>
        /\ lower.panic = ""
        /\ lower.returned
        /\ lower.ret_values =
                virtual_value_to_func_params(Fresh(last.before), <<>>, last.arg).buf

\* return_ of a ByScalars aggregate agrees with virtual_value_to_func_params when every
\* field of an UnstableStruct is a Scalar (a StackStruct is read back recursively)
C7_FlatReturnMirrorsParams ==
    (last.op = "return_" /\ PassedByScalars(last.arg)
        /\ (last.arg.k = "UnstableStruct" =>
                \A f \in 1..Len(last.arg.fields) : last.arg.fields[f].k = "Scalar")) =>
        /\ lower.panic = ""
        /\ lower.returned
        /\ lower.ret_values =
                virtual_value_to_func_params(Fresh(last.before), <<>>, last.arg).buf

\* C22: destruct_field of a Scalar panics, whatever the field index, and emits no
\* instruction: nothing is returned, the function under construction keeps its
\* instructions, stack slots and memory, and no operation follows
C22_DestructScalarAborts ==
    (last.op = "destruct_field" /\ last.arg.k = "Scalar") =>
        /\ lower.panic = "cannot destruct field from non-struct"
        /\ last.result = <<>>
        /\ lower.insts = <<>>
        /\ lower = [Fresh(last.before) EXCEPT !.panic = lower.panic]
        /\ pc = "aborted"

\* field 1 of a Scalar was asked for after other operations
C22_Witness ==
    /\ last.op = "destruct_field" /\ last.arg.k = "Scalar"
    /\ last.field = 1
    /\ nops = 3
    /\ lower.panic # ""

\* the declared field names of last.type_ that the supplied pairs do not name
MissingFields ==
    {i \in 1..Len(types.struct_fields[last.type_]) :
        \A k \in 1..Len(last.supplied) :
            last.supplied[k].name # types.struct_fields[last.type_][i].name}

\* C23: construct_struct(type, supplied) returns the UnstableStruct of that type whose
\* i-th field is the value supplied under the name of the i-th declared field, in
\* whatever order the pairs are supplied; it panics when a declared field name is not
\* among the supplied names
C23_ConstructByName ==
    (last.op = "construct_struct") =>
        LET fs == types.struct_fields[last.type_]
        IN  IF MissingFields = {}
            THEN /\ lower.panic = ""
                 /\ Len(last.result) = 1
                 /\ last.result[1].k = "UnstableStruct"
                 /\ last.result[1].type_ = last.type_
                 /\ Len(last.result[1].fields) = Len(fs)
                 /\ \A i \in 1..Len(fs) : \A k \in 1..Len(last.supplied) :
                        last.supplied[k].name = fs[i].name =>
                            last.result[1].fields[i] = last.supplied[k].v
            ELSE /\ lower.panic = "missing field in struct constructor"
                 /\ last.result = <<>>
                 /\ pc = "aborted"

\* a struct of two fields, one of them an aggregate, was constructed from pairs
\* supplied in the reverse of the declared order
C23_Witness ==
    /\ last.op = "construct_struct" /\ lower.panic = ""
    /\ Len(last.supplied) = 2
    /\ last.supplied[1].name = types.struct_fields[last.type_][2].name
    /\ last.supplied[2].name = types.struct_fields[last.type_][1].name
    /\ last.supplied[1].v # last.supplied[2].v
    /\ \E k \in 1..2 : IsAggregate(last.supplied[k].v)

\* the instructions of the operation applied last that read memory
Loads(S) == {k \in 1..Len(S.insts) : S.insts[k].op = "load"}

\* C24: destruct_field of StackStruct(A, p) at field i emits, for an Int field, one
\* instruction, the load of the I32 offset_of_field(A, i) bytes from p, and returns the
\* loaded value; for a field that is a struct B it emits no load and returns
\* StackStruct(B, p + offset_of_field(A, i)). So destructuring field j, an Int, of that
\* result loads from p + offset_of_field(A, i) + offset_of_field(B, j)
C24_LazyFieldAccess ==
    /\ (last.op = "destruct_field" /\ last.arg.k = "StackStruct") =>
            LET A == last.arg.type_
                p == last.arg.ptr
                fty == types.struct_fields[A][last.field + 1].ty
                off == offset_of_field(A, last.field)
            IN  /\ lower.panic = ""
                /\ Len(last.result) = 1
                /\ fty.k = "Int" =>
                        /\ Len(lower.insts) = 1
                        /\ lower.insts[1].op = "load"
                        /\ lower.insts[1].args = <<p>>
                        /\ lower.insts[1].imm = off
                        /\ last.result[1] = Scalar(lower.insts[1].result)
                        /\ (p + off) \in DOMAIN last.before.mem =>
                                last.result[1] = Scalar(last.before.mem[p + off])
                /\ fty.k = "Struct" =>
                        /\ Loads(lower) = {}
                        /\ last.result[1] = StackStruct(fty.name, p + off)
                        /\ lower.mem = last.before.mem
                        /\ lower.slots = last.before.slots
    /\ pc = "body" =>
        \A v \in {w \in vals : w.k = "StackStruct"} :
            \A i \in 0..(Len(types.struct_fields[v.type_]) - 1) :
                LET B == types.struct_fields[v.type_][i + 1].ty
                IN  B.k = "Struct" =>
                        \A j \in 0..(Len(types.struct_fields[B.name]) - 1) :
                            types.struct_fields[B.name][j + 1].ty.k = "Int" =>
                                LET first == destruct_field(Fresh(lower), v, i)
                                    second == destruct_field(Fresh(first.s), first.v, j)
                                    read == second.s.insts[1]
                                IN  /\ Len(second.s.insts) = 1
                                    /\ read.op = "load"
                                    /\ read.args[1] + read.imm =
                                            v.ptr + offset_of_field(v.type_, i)
                                                + offset_of_field(B.name, j)

\* an Int field at a positive offset was read from a StackStruct that destruct_field
\* made of a nested field at a positive offset of a held StackStruct
C24_Witness ==
    /\ last.op = "destruct_field" /\ last.arg.k = "StackStruct" /\ lower.panic = ""
    /\ offset_of_field(last.arg.type_, last.field) > 0
    /\ Len(lower.insts) = 1 /\ lower.insts[1].op = "load"
    /\ \E w \in vals :
            /\ w.k = "StackStruct"
            /\ \E i \in 0..(Len(types.struct_fields[w.type_]) - 1) :
                    /\ offset_of_field(w.type_, i) > 0
                    /\ last.arg = StackStruct(types.struct_fields[w.type_][i + 1].ty.name,
                                              w.ptr + offset_of_field(w.type_, i))
                    /\ lower.insts[1].args[1] + lower.insts[1].imm =
                            w.ptr + offset_of_field(w.type_, i)
                                + offset_of_field(last.arg.type_, last.field)

\* C25: construct_struct, and destruct_field of an UnstableStruct, leave the function
\* under construction as it was: no instruction is emitted, no stack slot is created
\* and memory is not written; destruct_field returns the field value the UnstableStruct
\* holds
C25_NoFrameEffect ==
    /\ (last.op = "construct_struct"
            \/ (last.op = "destruct_field" /\ last.arg.k = "UnstableStruct")) =>
            /\ lower.insts = <<>>
            /\ lower.slots = last.before.slots
            /\ lower.mem = last.before.mem
            /\ [lower EXCEPT !.panic = ""] = Fresh(last.before)
    /\ (last.op = "destruct_field" /\ last.arg.k = "UnstableStruct") =>
            /\ lower.panic = ""
            /\ last.result = <<last.arg.fields[last.field + 1]>>

\* a field that is an aggregate itself was taken out of an UnstableStruct in a function
\* that holds stack slots and memory
C25_Witness ==
    /\ last.op = "destruct_field" /\ last.arg.k = "UnstableStruct"
    /\ IsAggregate(last.result[1])
    /\ Len(lower.slots) >= 1
    /\ DOMAIN lower.mem # {}

\* the number of primitive arguments a call passes for the value v
ArgWidth(v) ==
    IF v.k = "Scalar" THEN 1
    ELSE IF struct_passing_mode(v.type_) = "ByPointer" THEN 1
    ELSE Len(for_scalars_of_struct(v.type_))

\* the place in last.call_params of the first primitive argument passed for the i-th
\* argument of the call lowered last
RECURSIVE ArgPos(_)
ArgPos(i) ==
    IF i = 1 THEN (IF ReturnsLarge(last.func) THEN 2 ELSE 1)
    ELSE ArgPos(i - 1) + ArgWidth(last.params[i - 1])

\* the arguments of the call lowered last that are UnstableStructs passed by pointer
MaterialisedArgs ==
    {i \in 1..Len(last.params) :
        last.params[i].k = "UnstableStruct" /\ PassedByPointer(last.params[i])}

\* C26: stack slots are created by call_func only: one for the result of a callee that
\* returns a ByPointer aggregate and one for every argument that is an UnstableStruct of
\* a ByPointer type, each of the size of its struct. create_entry_block, int,
\* construct_struct, destruct_field and return_ create none, neither do ByScalars
\* arguments and results, and a StackStruct passed by pointer is passed as the pointer
\* it holds
C26_DeferredMaterialization ==
    /\ last.op \in {"create_entry_block", "int", "construct_struct", "destruct_field",
                    "return_"} =>
            lower.slots = last.before.slots
    /\ last.op = "call_func" =>
            LET ret == return_type_of(last.func)
                out == IF ReturnsLarge(last.func) THEN <<size_of(ret)>> ELSE <<>>
                new == SubSeq(lower.slots, Len(last.before.slots) + 1, Len(lower.slots))
            IN  /\ lower.panic = ""
                /\ SubSeq(lower.slots, 1, Len(last.before.slots)) = last.before.slots
                /\ Len(new) = Len(out) + Cardinality(MaterialisedArgs)
                /\ SubSeq(new, 1, Len(out)) = out
                /\ \A i \in MaterialisedArgs :
                        \E k \in (Len(out) + 1)..Len(new) :
                            /\ new[k] = size_of_struct(last.params[i].type_)
                            /\ last.call_params[ArgPos(i)] =
                                    SlotAddr(lower.stack_base, lower.slots,
                                             Len(last.before.slots) + k)
                /\ \A i \in 1..Len(last.params) :
                        (last.params[i].k = "StackStruct" /\ PassedByPointer(last.params[i]))
                            => last.call_params[ArgPos(i)] = last.params[i].ptr

\* a call passed a StackStruct by pointer and created no stack slot
C26_Witness ==
    /\ last.op = "call_func" /\ lower.panic = ""
    /\ \E i \in 1..Len(last.params) :
            /\ last.params[i].k = "StackStruct" /\ PassedByPointer(last.params[i])
            /\ last.call_params[ArgPos(i)] = last.params[i].ptr
    /\ lower.slots = last.before.slots
    /\ nops >= 2

\* the cl::Type of a primitive value of Spec: every address (stack slots, the
\* caller's aggregates, the destination of the result) lies at or above StackBase, every
\* I32 (literals, parameters, memory words, returned values) below it
KindOfValue(x) == IF x >= StackBase THEN pointer_type ELSE "I32"

\* C28: the primitive arguments call_func passes to f are as many as the parameters of
\* create_signature(f) and of the same cl::Type at every position, whatever shapes the
\* virtual values of f's declared parameter types have; and create_entry_block with
\* the declared parameters of the function being lowered appends one block parameter
\* per parameter of its signature, of the same cl::Type, the struct-return pointer
\* being the first when the signature has one
C28_CallerCalleeAgreement ==
    /\ last.op = "call_func" =>
            LET sig == create_signature(DefaultCallConv, types.function_names[last.func])
            IN  /\ lower.panic = ""
                /\ Len(last.call_params) = Len(sig.params)
                /\ \A k \in 1..Len(sig.params) :
                        KindOfValue(last.call_params[k]) = sig.params[k].value_type
                /\ uses_struct_return_param(sig) =>
                        sig.params[1].purpose = "StructReturn"
    /\ last.op = "create_entry_block" =>
            LET sig == create_signature(DefaultCallConv, cur_fn)
            IN  /\ lower.panic = ""
                /\ lower.sig = sig
                /\ Len(lower.block_params) = Len(sig.params)
                /\ \A k \in 1..Len(sig.params) :
                        /\ lower.block_params[k].ty = sig.params[k].value_type
                        /\ lower.block_params[k].value = lower.args[k]
                /\ uses_struct_return_param(sig) =>
                        /\ sig.params[1].purpose = "StructReturn"
                        /\ lower.block_params[1].value = SretArg(lower)
                /\ ~lower.undef

\* a call passed an out pointer, then an aggregate by pointer or by its scalars, to a
\* callee whose signature has at least two parameters, from a body whose own entry
\* block took a struct-return pointer
C28_Witness ==
    /\ last.op = "call_func" /\ lower.panic = ""
    /\ ReturnsLarge(last.func)
    /\ Len(last.call_params) >= 2
    /\ \E i \in 1..Len(last.params) : IsAggregate(last.params[i])
    /\ uses_struct_return_param(lower.sig)
    /\ Len(lower.block_params) = Len(lower.sig.params)

\* the addresses the operation applied last stored to
StoreAddrs(S) ==
    {S.insts[k].args[2] + S.insts[k].imm :
        k \in {j \in 1..Len(S.insts) : S.insts[j].op = "store"}}

\* the bytes of the k-th stack slot of the frame
SlotBytes(S, k) ==
    LET addr == SlotAddr(S.stack_base, S.slots, k)
    IN  addr..(addr + S.slots[k] - 1)

\* the bytes of the aggregate a StackStruct points to
StructBytes(v) == v.ptr..(v.ptr + size_of_struct(v.type_) - 1)

\* the StackStructs held before the operation applied last
HeldBefore == {v \in vals : v.k = "StackStruct" /\ <<v>> # last.result}

\* C29: a store is emitted only by call_func, into a stack slot this call created for
\* an UnstableStruct argument passed by pointer, and by return_, through the
\* struct-return pointer of the function being lowered. No store goes to the bytes of
\* a StackStruct held before the operation (a parameter passed by pointer, the result
\* of an earlier call or of destruct_field), whose contents therefore stay as they
\* were; and the slots of one call are distinct: the slot of the result and the slots
\* of the arguments do not overlap
C29_StoresGoToFreshSlots ==
    /\ last.op \in {"create_entry_block", "int", "construct_struct", "destruct_field"} =>
            StoreAddrs(lower) = {}
    /\ last.op = "call_func" =>
            LET out == IF ReturnsLarge(last.func) THEN 1 ELSE 0
                first == Len(last.before.slots) + out + 1
            IN  /\ \A a \in StoreAddrs(lower) :
                        \E k \in first..Len(lower.slots) : a \in SlotBytes(lower, k)
                /\ \A k, j \in (Len(last.before.slots) + 1)..Len(lower.slots) :
                        k # j => SlotBytes(lower, k) \cap SlotBytes(lower, j) = {}
                /\ \A k \in (Len(last.before.slots) + 1)..Len(lower.slots) :
                        /\ lower.slots[k] > 0
                        /\ \A j \in 1..Len(last.before.slots) :
                                SlotBytes(lower, k) \cap SlotBytes(lower, j) = {}
                /\ \A i \in MaterialisedArgs :
                        ReturnsLarge(last.func) =>
                            last.call_params[ArgPos(i)] # last.call_params[1]
    /\ last.op = "return_" =>
            \A a \in StoreAddrs(lower) :
                /\ uses_struct_return_param(lower.sig)
                /\ a \in SretArg(lower)..(SretArg(lower) + size_of_struct(last.arg.type_) - 1)
    /\ last.op \in {"call_func", "return_"} =>
            \A v \in HeldBefore :
                /\ StoreAddrs(lower) \cap StructBytes(v) = {}
                /\ \A a \in StructBytes(v) \cap DOMAIN last.before.mem :
                        a \in DOMAIN lower.mem /\ lower.mem[a] = last.before.mem[a]

\* a call with an out pointer stored the fields of an UnstableStruct argument into a
\* slot of its own while the body held a StackStruct
C29_Witness ==
    /\ last.op = "call_func" /\ lower.panic = ""
    /\ ReturnsLarge(last.func)
    /\ MaterialisedArgs # {}
    /\ Cardinality(StoreAddrs(lower)) >= 3
    /\ HeldBefore # {}

(***************************************************************************)
(* SpecLookup: the driver of a function body asks the LookupTable between  *)
(* the FuncLower operations, also for names, ids and fields the table does *)
(* not hold. A lookup that fails panics, and the panic ends the process.   *)
(***************************************************************************)
\* `.expect("function not found")` of create_signature; "" is no panic
create_signature_panic(fname) ==
    IF fname \notin DOMAIN types.function_types THEN "function not found" ELSE ""

\* `.expect("struct not found")` of for_scalars_of_struct, which struct_passing_mode
\* and size_of_struct call first
for_scalars_of_struct_panic(name) ==
    IF name \notin DOMAIN types.struct_fields THEN "struct not found" ELSE ""

\* `.unwrap()` of fields_of_struct
fields_of_struct_panic(name) ==
    IF name \notin DOMAIN types.struct_fields
    THEN "called Option::unwrap() on a None value" ELSE ""

\* the two `.expect`s of resolve_field
resolve_field_panic(type_, field) ==
    IF type_ \notin DOMAIN types.struct_fields THEN "struct not found"
    ELSE IF \A i \in 1..Len(types.struct_fields[type_]) :
                types.struct_fields[type_][i].name # field
    THEN "field not found" ELSE ""

\* `.expect("struct not found")[field]` of type_of_field
type_of_field_panic(struct_, field) ==
    IF struct_ \notin DOMAIN types.struct_fields THEN "struct not found"
    ELSE IF field >= Len(types.struct_fields[struct_]) THEN "index out of bounds"
    ELSE ""

\* mutant: the index one past the last field is taken for the end of the struct
offset_of_field_panic_past_end(struct_, field) ==
    IF struct_ \notin DOMAIN types.struct_fields THEN "struct not found"
    ELSE IF \A i \in 0..Len(types.struct_fields[struct_]) : i # field
    THEN "field not found" ELSE ""

\* offset_of_field: `.expect("struct not found")`, and `panic!("field not found")` when
\* no iteration of the loop over the fields meets `i == field`
offset_of_field_panic(struct_, field) ==
    IF struct_ \notin DOMAIN types.struct_fields THEN "struct not found"
    ELSE IF \A i \in 0..(Len(types.struct_fields[struct_]) - 1) : i # field
    THEN "field not found" ELSE ""

\* the two HashMap indexings of return_type_of
return_type_of_panic(id) ==
    IF id \notin DOMAIN types.function_names THEN "no entry found for key"
    ELSE IF types.function_names[id] \notin DOMAIN types.function_types
    THEN "no entry found for key" ELSE ""

\* the names, field names, field indices and ids asked for: those of the table and
\* some it does not hold
AskedStructs == (DOMAIN types.struct_fields) \cup {"Missing"}
AskedFunctions == (DOMAIN types.function_types) \cup {"missing_fn"}
AskedFieldNames == {"id", "position", "y", "nope"}
AskedFields == 0..MaxFields
AskedIds == 0..(UserFnId + 1)

\* the table of SpecLookup: Custom { f0: Int, f1: Point }, user_fn(Custom) -> Custom
InitLookup ==
    /\ types \in {t \in Tables :
                    /\ t.struct_fields["Custom"] =
                            CustomFields(<<TypeInt, TypeStruct("Point")>>)
                    /\ t.function_types["user_fn"] =
                            [params |-> <<TypeStruct("Custom")>>,
                             ret |-> TypeStruct("Custom")]}
    /\ query = NoQuery
    /\ LayoutIdle
    /\ BuilderIdle
    /\ cur_fn \in DOMAIN types.function_types
    /\ nops = 0
    /\ lower = LET sig == create_signature(DefaultCallConv, cur_fn)
               IN  NewFuncLower(sig, IncomingArgs(sig), IncomingMem(sig))
    /\ vals = {}
    /\ pc = "new"
    /\ last = NoOp
    /\ MainIdle

\* the driver asks once, while the body is being lowered
CanLookup == pc \in {"new", "body"} /\ query.op = "none"

\* the process after a lookup that panicked with message p ("" for none)
AfterLookup(p) == IF p = "" THEN pc ELSE "aborted"

LookupCreateSignature ==
    /\ CanLookup
    /\ \E fname \in AskedFunctions :
        \E p \in {create_signature_panic(fname)} :
            /\ query' = [NoQuery EXCEPT
                            !.op = "create_signature", !.fname = fname, !.panic = p,
                            !.value = IF p = "" THEN <<create_signature(DefaultCallConv, fname)>>
                                      ELSE <<>>]
            /\ pc' = AfterLookup(p)
    /\ UNCHANGED <<types, cur_fn, lower, vals, nops, last, layoutVars, mainVars, builderVars>>

LookupPassingMode ==
    /\ CanLookup
    /\ \E name \in AskedStructs :
        \E p \in {for_scalars_of_struct_panic(name)} :
            /\ query' = [NoQuery EXCEPT
                            !.op = "struct_passing_mode", !.name = name, !.panic = p,
                            !.value = IF p = "" THEN <<struct_passing_mode(name)>> ELSE <<>>]
            /\ pc' = AfterLookup(p)
    /\ UNCHANGED <<types, cur_fn, lower, vals, nops, last, layoutVars, mainVars, builderVars>>

LookupSizeOfStruct ==
    /\ CanLookup
    /\ \E name \in AskedStructs :
        \E p \in {for_scalars_of_struct_panic(name)} :
            /\ query' = [NoQuery EXCEPT
                            !.op = "size_of_struct", !.name = name, !.panic = p,
                            !.value = IF p = "" THEN <<size_of_struct(name)>> ELSE <<>>]
            /\ pc' = AfterLookup(p)
    /\ UNCHANGED <<types, cur_fn, lower, vals, nops, last, layoutVars, mainVars, builderVars>>

LookupFieldsOfStruct ==
    /\ CanLookup
    /\ \E name \in AskedStructs :
        \E p \in {fields_of_struct_panic(name)} :
            /\ query' = [NoQuery EXCEPT
                            !.op = "fields_of_struct", !.name = name, !.panic = p,
                            !.value = IF p = "" THEN <<fields_of_struct(name)>> ELSE <<>>]
            /\ pc' = AfterLookup(p)
    /\ UNCHANGED <<types, cur_fn, lower, vals, nops, last, layoutVars, mainVars, builderVars>>

LookupResolveField ==
    /\ CanLookup
    /\ \E type_ \in AskedStructs :
        \E field \in AskedFieldNames :
            \E p \in {resolve_field_panic(type_, field)} :
                /\ query' = [NoQuery EXCEPT
                                !.op = "resolve_field", !.name = type_, !.fname = field,
                                !.panic = p,
                                !.value = IF p = "" THEN <<resolve_field(type_, field)>>
                                          ELSE <<>>]
                /\ pc' = AfterLookup(p)
    /\ UNCHANGED <<types, cur_fn, lower, vals, nops, last, layoutVars, mainVars, builderVars>>

LookupTypeOfField ==
    /\ CanLookup
    /\ \E struct_ \in AskedStructs :
        \E field \in AskedFields :
            \E p \in {type_of_field_panic(struct_, field)} :
                /\ query' = [NoQuery EXCEPT
                                !.op = "type_of_field", !.name = struct_, !.field = field,
                                !.panic = p,
                                !.value = IF p = "" THEN <<type_of_field(struct_, field)>>
                                          ELSE <<>>]
                /\ pc' = AfterLookup(p)
    /\ UNCHANGED <<types, cur_fn, lower, vals, nops, last, layoutVars, mainVars, builderVars>>

LookupOffsetOfField ==
    /\ CanLookup
    /\ \E struct_ \in AskedStructs :
        \E field \in AskedFields :
            \E p \in {offset_of_field_panic(struct_, field)} :
                /\ query' = [NoQuery EXCEPT
                                !.op = "offset_of_field", !.name = struct_, !.field = field,
                                !.panic = p,
                                !.value = IF p = "" THEN <<offset_of_field(struct_, field)>>
                                          ELSE <<>>]
                /\ pc' = AfterLookup(p)
    /\ UNCHANGED <<types, cur_fn, lower, vals, nops, last, layoutVars, mainVars, builderVars>>

LookupReturnTypeOf ==
    /\ CanLookup
    /\ \E id \in AskedIds :
        \E p \in {return_type_of_panic(id)} :
            /\ query' = [NoQuery EXCEPT
                            !.op = "return_type_of", !.field = id, !.panic = p,
                            !.value = IF p = "" THEN <<return_type_of(id)>> ELSE <<>>]
            /\ pc' = AfterLookup(p)
    /\ UNCHANGED <<types, cur_fn, lower, vals, nops, last, layoutVars, mainVars, builderVars>>

NextLookup ==
    \/ LookupCreateSignature
    \/ LookupPassingMode
    \/ LookupSizeOfStruct
    \/ LookupFieldsOfStruct
    \/ LookupResolveField
    \/ LookupTypeOfField
    \/ LookupOffsetOfField
    \/ LookupReturnTypeOf
    \/ CreateEntryBlock
    \/ IntOp
    \/ ConstructStruct
    \/ DestructField
    \/ CallFunc
    \/ Return

SpecLookup == InitLookup /\ [][NextLookup]_vars

\* the lookup asked for something the table does not hold
AskedUnknown ==
    LET known_struct == query.name \in DOMAIN types.struct_fields
        n == IF known_struct THEN Len(types.struct_fields[query.name]) ELSE 0
    IN  CASE query.op = "create_signature" -> query.fname \notin DOMAIN types.function_types
          [] query.op \in {"struct_passing_mode", "size_of_struct", "fields_of_struct"} ->
                ~known_struct
          [] query.op = "resolve_field" ->
                \/ ~known_struct
                \/ ~\E i \in 1..n : types.struct_fields[query.name][i].name = query.fname
          [] query.op \in {"type_of_field", "offset_of_field"} ->
                ~known_struct \/ query.field \notin 0..(n - 1)
          [] query.op = "return_type_of" -> query.field \notin DOMAIN types.function_names
          [] OTHER -> FALSE

\* C21: a LookupTable operation asked for a struct name, function name, function id,
\* field name or field index that the table does not hold panics and returns no value,
\* and after the panic no lowering operation runs: the function under construction,
\* the values held and the operation count stay as they were
C21_UnknownLookupsAbort ==
    /\ [](AskedUnknown => (query.panic # "" /\ query.value = <<>> /\ pc = "aborted"))
    /\ [][query.panic # "" => UNCHANGED <<lower, vals, nops, last, pc>>]_vars

\* a lookup of an unknown name panicked after operations were lowered
C21_Witness ==
    /\ AskedUnknown /\ query.panic # ""
    /\ query.op = "offset_of_field" /\ query.name = "Point"
    /\ nops >= 2
    /\ pc = "aborted"

(***************************************************************************)
(* SpecMain: main() of lowering-structs. define_main and define_move_right *)
(* lower their bodies statement by statement; every instruction runs as it *)
(* is emitted, so the call instruction of main enters the body of          *)
(* move_right with the arguments and the memory of main, and the return of *)
(* move_right resumes main.                                                *)
(***************************************************************************)
\* the integer literals of define_main, and a neighbour of each
LiteralChoices == [id : {5, 6}, x : {10, 11}, y : {20, 21}, by : {2, 3}]

\* how far below the frame of its caller the frame of a callee lies
FrameStride == 256

\* `let name = v;`
Bind(l, name, v) == [n \in (DOMAIN l) \cup {name} |-> IF n = name THEN v ELSE l[n]]

notMainVars == <<vals, nops, last, types, query, layoutVars, builderVars>>

\* before `LookupTable::hardcoded` has run there is no table
NoTable ==
    [ ptr_size |-> 0,
      function_names |-> NoFunctionNames,
      function_types |-> [f \in {} |-> [params |-> <<>>, ret |-> TypeInt]],
      struct_fields |-> [s \in {} |-> <<>>] ]

InitMain ==
    /\ types = NoTable
    /\ query = NoQuery
    /\ LayoutIdle
    /\ BuilderIdle
    /\ cur_fn = ""
    /\ lower = NoFuncLower
    /\ vals = {}
    /\ nops = 0
    /\ last = NoOp
    /\ pc = "main: hardcoded"
    /\ caller = <<>>
    /\ locals = <<>>
    /\ literals \in LiteralChoices

\* main: let mut types = types::LookupTable::hardcoded(module.isa().pointer_bytes());
MainHardcoded ==
    /\ pc = "main: hardcoded"
    /\ types' = hardcoded(PtrSize)
    /\ pc' = "main: declare_main"
    /\ UNCHANGED <<query, cur_fn, lower, vals, nops, last, mainVars, layoutVars,
                   builderVars>>

\* main: let main_func_id = declare_main(module, &types), which asks the table for the
\* signature of "main"
MainDeclareMain ==
    /\ pc = "main: declare_main"
    /\ query' = [NoQuery EXCEPT !.op = "create_signature", !.fname = "main",
                                !.sig = create_signature(DefaultCallConv, "main")]
    /\ pc' = "main: declare_move_right"
    /\ UNCHANGED <<types, cur_fn, lower, vals, nops, last, mainVars, layoutVars,
                   builderVars>>

\* main: let move_right_func_id = declare_move_right(module, &types);
MainDeclareMoveRight ==
    /\ pc = "main: declare_move_right"
    /\ query' = [NoQuery EXCEPT !.op = "create_signature", !.fname = "move_right",
                                !.sig = create_signature(DefaultCallConv, "move_right")]
    /\ pc' = "main: insert main"
    /\ UNCHANGED <<types, cur_fn, lower, vals, nops, last, mainVars, layoutVars,
                   builderVars>>

\* main: types.function_names.insert(main_func_id, "main");
MainInsertMain ==
    /\ pc = "main: insert main"
    /\ types' = function_names_insert(types, MainId, "main")
    /\ pc' = "main: insert move_right"
    /\ UNCHANGED <<query, cur_fn, lower, vals, nops, last, mainVars, layoutVars,
                   builderVars>>

\* mutant: "move_right" is not entered into function_names before define_main but
\* when the body of main is about to call it
MainInsertMoveRightLate ==
    /\ pc \in {"main: insert move_right", "main: call_func"}
    /\ types' = IF pc = "main: call_func"
                THEN function_names_insert(types, MoveRightId, "move_right") ELSE types
    /\ pc' = IF pc = "main: call_func" THEN pc ELSE "main: define_main"
    /\ pc = "main: call_func" => MoveRightId \notin DOMAIN types.function_names
    /\ UNCHANGED <<query, cur_fn, lower, vals, nops, last, mainVars, layoutVars,
                   builderVars>>

\* main: types.function_names.insert(move_right_func_id, "move_right");
MainInsertMoveRight ==
    /\ pc = "main: insert move_right"
    /\ types' = function_names_insert(types, MoveRightId, "move_right")
    /\ pc' = "main: define_main"
    /\ UNCHANGED <<query, cur_fn, lower, vals, nops, last, mainVars, layoutVars,
                   builderVars>>

\* define_main: builder.func.signature = signature_from_decl(module, id);
\* let mut lower = FuncLower::new(&types, &mut builder, module);
MainFuncLowerNew ==
    /\ pc = "main: define_main"
    /\ cur_fn' = "main"
    /\ lower' = NewFuncLower(create_signature(DefaultCallConv, "main"), <<>>, NoMem)
    /\ pc' = "main: create_entry_block"
    /\ UNCHANGED <<caller, locals, literals, notMainVars>>

\* one `let name = <FuncLower operation>;` of a body: r is the operation's outcome
Stmt(next, name, r) ==
    /\ lower' = r.s
    /\ locals' = Bind(locals, name, r.v)
    /\ pc' = IF r.s.panic # "" THEN "aborted" ELSE next
    /\ UNCHANGED <<cur_fn, caller, literals, notMainVars>>

\* `(name, v)` of a construct_struct argument
Field(name, v) == [name |-> name, v |-> v]

\* define_main: let (entry, _vparams) = lower.create_entry_block(&[]);
MainCreateEntryBlock ==
    /\ pc = "main: create_entry_block"
    /\ Stmt("main: id", "_vparams",
         Then(create_entry_block(lower, <<>>), LAMBDA r : [s |-> r.s, v |-> r.vs]))

\* define_main: let id = lower.int(5);
MainIdLit ==
    /\ pc = "main: id"
    /\ Stmt("main: x", "id", int(lower, literals.id))

\* define_main: let x = lower.int(10);
MainXLit ==
    /\ pc = "main: x"
    /\ Stmt("main: y", "x", int(lower, literals.x))

\* define_main: let y = lower.int(20);
MainYLit ==
    /\ pc = "main: y"
    /\ Stmt("main: position", "y", int(lower, literals.y))

\* define_main: lower.construct_struct("Point", &[("x", x), ("y", y)])
MainPosition ==
    /\ pc = "main: position"
    /\ Stmt("main: player", "position",
         construct_struct(lower, "Point",
                          <<Field("x", locals["x"]), Field("y", locals["y"])>>))

\* define_main: lower.construct_struct("Player", &[("id", id), ("position", position)])
MainPlayer ==
    /\ pc = "main: player"
    /\ Stmt("main: two", "player",
         construct_struct(lower, "Player",
                          <<Field("id", locals["id"]),
                            Field("position", locals["position"])>>))

\* define_main: let two = lower.ins().iconst(cl::types::I32, 2);
MainTwo ==
    /\ pc = "main: two"
    /\ Stmt("main: call_func", "two",
         ins_iconst(lower, literals.by))

\* define_main: lower.call_func(move_right_func_id, vec![player, Scalar(two)]) up to the
\* call instruction, which enters move_right: a new activation with the call's
\* arguments, the memory as main leaves it and a frame of its own
MainCallFunc ==
    /\ pc = "main: call_func"
    /\ IF return_type_of_panic(MoveRightId) # ""
       THEN /\ lower' = Panic(lower, return_type_of_panic(MoveRightId))
            /\ pc' = "aborted"
            /\ UNCHANGED <<caller, cur_fn, locals>>
       ELSE \E m \in {call_func_marshal(lower, MoveRightId, <<locals["player"],
                                                              Scalar(locals["two"])>>)} :
            /\ caller' = Append(caller, [cur_fn |-> cur_fn, lower |-> m.s,
                                         locals |-> locals, func |-> MoveRightId,
                                         out_ptr_return |-> m.out_ptr_return])
            /\ cur_fn' = types.function_names[MoveRightId]
            /\ lower' = [NewFuncLower(
                            create_signature(DefaultCallConv,
                                             types.function_names[MoveRightId]),
                            m.call_params, m.s.mem)
                         EXCEPT !.stack_base = m.s.stack_base + FrameStride]
            /\ locals' = <<>>
            /\ pc' = IF m.s.panic # "" THEN "aborted" ELSE "move_right: create_entry_block"
    /\ UNCHANGED <<literals, notMainVars>>

\* define_move_right: let (entry, vparams) =
\*     lower.create_entry_block(&[Type::Struct("Player"), Type::Int]);
MoveRightCreateEntryBlock ==
    /\ pc = "move_right: create_entry_block"
    /\ Stmt("move_right: id", "vparams",
         Then(create_entry_block(lower, <<TypeStruct("Player"), TypeInt>>),
              LAMBDA r : [s |-> r.s, v |-> r.vs]))

\* define_move_right: let id = lower.destruct_field(&vparams[0], resolve_field(..));
MoveRightDestructId ==
    /\ pc = "move_right: id"
    /\ Stmt("move_right: p_position", "id",
         destruct_field(lower, locals["vparams"][1], resolve_field("Player", "id")))

\* define_move_right: let p_position = lower.destruct_field(&vparams[0], ..);
MoveRightPPosition ==
    /\ pc = "move_right: p_position"
    /\ Stmt("move_right: x", "p_position",
         destruct_field(lower, locals["vparams"][1], resolve_field("Player", "position")))

\* define_move_right: let x = { destruct_field(&p_position, ..).as_scalar();
\*     let by = vparams[1].as_scalar(); VirtualValue::Scalar(lower.ins().iadd(x, by)) };
MoveRightX ==
    /\ pc = "move_right: x"
    /\ Stmt("move_right: y", "x",
         Then(destruct_field(lower, locals["p_position"], resolve_field("Point", "x")),
              LAMBDA d :
         Then(as_scalar(d.s, d.v), LAMBDA x :
         Then(as_scalar(x.s, locals["vparams"][2]), LAMBDA by :
         Then(ins_iadd(by.s, x.v, by.v), LAMBDA sum :
              [s |-> sum.s, v |-> Scalar(sum.v)])))))

\* define_move_right: let y = lower.destruct_field(&p_position, ..);
MoveRightY ==
    /\ pc = "move_right: y"
    /\ Stmt("move_right: position", "y",
         destruct_field(lower, locals["p_position"], resolve_field("Point", "y")))

\* define_move_right: lower.construct_struct("Point", &[("x", x), ("y", y)])
MoveRightPosition ==
    /\ pc = "move_right: position"
    /\ Stmt("move_right: player", "position",
         construct_struct(lower, "Point",
                          <<Field("x", locals["x"]), Field("y", locals["y"])>>))

\* define_move_right: lower.construct_struct("Player", &[("id", id), ("position", ..)])
MoveRightPlayer ==
    /\ pc = "move_right: player"
    /\ Stmt("move_right: return_", "player",
         construct_struct(lower, "Player",
                          <<Field("id", locals["id"]),
                            Field("position", locals["position"])>>))

\* define_move_right: lower.return_(player);
MoveRightReturn ==
    /\ pc = "move_right: return_"
    /\ \E S \in {return_(lower, locals["player"])} :
        /\ lower' = S
        /\ pc' = IF S.panic # "" THEN "aborted" ELSE "move_right: returned"
    /\ UNCHANGED <<cur_fn, caller, locals, literals, notMainVars>>

\* the call instruction of main completes: main goes on with the memory move_right
\* leaves and the values it returned, and call_func hands back its result
\* (`let _moved_player = ..`)
CallReturns ==
    /\ pc = "move_right: returned"
    /\ caller # <<>>
    /\ LET frame == caller[Len(caller)]
           resumed == [frame.lower EXCEPT !.mem = lower.mem,
                                          !.register_returns = lower.ret_values]
       IN  \E r \in {call_func_result(resumed, frame.func, frame.out_ptr_return)} :
            /\ lower' = r.s
            /\ locals' = Bind(frame.locals, "_moved_player", r.v)
            /\ cur_fn' = frame.cur_fn
            /\ pc' = IF r.s.panic # "" THEN "aborted" ELSE "main: exit_code"
    /\ caller' = SubSeq(caller, 1, Len(caller) - 1)
    /\ UNCHANGED <<literals, notMainVars>>

\* define_main: let exit_code = lower.int(0);
MainExitCode ==
    /\ pc = "main: exit_code"
    /\ Stmt("main: return_", "exit_code", int(lower, 0))

\* define_main: lower.return_(exit_code);
MainReturn ==
    /\ pc = "main: return_"
    /\ \E S \in {return_(lower, locals["exit_code"])} :
        /\ lower' = S
        /\ pc' = IF S.panic # "" THEN "aborted" ELSE "done"
    /\ UNCHANGED <<cur_fn, caller, locals, literals, notMainVars>>

NextMain ==
    \/ MainHardcoded
    \/ MainDeclareMain
    \/ MainDeclareMoveRight
    \/ MainInsertMain
    \/ MainInsertMoveRight
    \/ MainFuncLowerNew
    \/ MainCreateEntryBlock
    \/ MainIdLit
    \/ MainXLit
    \/ MainYLit
    \/ MainPosition
    \/ MainPlayer
    \/ MainTwo
    \/ MainCallFunc
    \/ MoveRightCreateEntryBlock
    \/ MoveRightDestructId
    \/ MoveRightPPosition
    \/ MoveRightX
    \/ MoveRightY
    \/ MoveRightPosition
    \/ MoveRightPlayer
    \/ MoveRightReturn
    \/ CallReturns
    \/ MainExitCode
    \/ MainReturn

SpecMain == InitMain /\ [][NextMain]_vars

DriverTable ==
    function_names_insert(function_names_insert(hardcoded(PtrSize), MainId, "main"),
                          MoveRightId, "move_right")

\* C27: in main() the table is built, by hardcoded and the two function_names
\* insertions, before FuncLower::new of the first body: a step that changes the table
\* is taken while no FuncLower exists, and from the first FuncLower on the table is the
\* complete one, whatever create_entry_block, int, construct_struct, destruct_field,
\* call_func and return_ do
C27_TableBuiltBeforeLowering ==
    /\ [](lower # NoFuncLower => types = DriverTable)
    /\ [][types' # types =>
            /\ lower = NoFuncLower /\ lower' = NoFuncLower
            /\ locals = <<>> /\ caller = <<>>]_vars

\* both bodies have been lowered, main through its call of move_right, under the
\* table of hardcoded and the two insertions
C27_Witness ==
    /\ pc = "done"
    /\ types = DriverTable
    /\ types # hardcoded(PtrSize)
    /\ "_moved_player" \in DOMAIN locals
    /\ lower.returned

(***************************************************************************)
(* Part 4: examples/tagged-union-layouts.                                  *)
(*                                                                         *)
(* A cl::Value is modelled with its cl::Type and its bytes, least          *)
(* significant first, so that sextend, ireduce, stack_store and load are   *)
(* the conversions the instructions perform.  An instruction is executed   *)
(* when it is emitted; the bytes of the stack slots are fbuilder.mem.      *)
(***************************************************************************)
MaxPayloadFields == 3

Value(ty, bits) == [ty |-> ty, bits |-> bits]

type_of_value(v) == v.ty

\* fbuilder.ins().iconst(ty, n): the two's complement of n in the width of ty, |n| < 2^23
iconst(ty, n) ==
    Value(ty, [i \in 1..bytes(ty) |->
                 IF i <= 3 THEN (n \div (256 ^ (i - 1))) % 256
                 ELSE IF n < 0 THEN 255 ELSE 0])

\* fbuilder.ins().sextend(ty, v): the sign bit of v fills the new high bytes
sextend(ty, v) ==
    Value(ty, [i \in 1..bytes(ty) |->
                 IF i <= Len(v.bits) THEN v.bits[i]
                 ELSE IF v.bits[Len(v.bits)] >= 128 THEN 255 ELSE 0])

\* fbuilder.ins().ireduce(ty, v): the low bytes of v
ireduce(ty, v) == Value(ty, SubSeq(v.bits, 1, bytes(ty)))

RECURSIVE add_bytes(_, _, _, _)
add_bytes(a, b, i, carry) ==
    IF i > Len(a) THEN <<>>
    ELSE LET t == a[i] + b[i] + carry
         IN  <<t % 256>> \o add_bytes(a, b, i + 1, t \div 256)

\* fbuilder.ins().iadd(x, y): wrapping addition in the width of x
iadd(x, y) == Value(x.ty, add_bytes(x.bits, y.bits, 1, 0))

emit(fb, opcodes) == [fb EXCEPT !.insts = @ \o opcodes]

\* fbuilder.create_sized_stack_slot: `size` more bytes, not yet written (-1)
create_sized_stack_slot(fb, size) ==
    [fb EXCEPT !.slots = Append(@, size), !.mem = @ \o [i \in 1..size |-> -1]]

\* where the bytes of stack slot `slot` start in fbuilder.mem
RECURSIVE slot_offset(_, _)
slot_offset(slots, slot) ==
    IF slot = 1 THEN 0 ELSE slot_offset(slots, slot - 1) + slots[slot - 1]

\* fbuilder.ins().stack_store(v, slot, offset)
stack_store(fb, v, slot, offset) ==
    LET start == slot_offset(fb.slots, slot) + offset
    IN  emit([fb EXCEPT !.mem = [a \in DOMAIN fb.mem |->
                                   IF a - start \in 1..Len(v.bits)
                                   THEN v.bits[a - start] ELSE fb.mem[a]]],
             <<"stack_store">>)

\* fbuilder.ins().stack_addr(size_t, slot, offset)
stack_addr(size_t, fb, slot, offset) ==
    iconst(size_t, StackBase + slot_offset(fb.slots, slot) + offset)

\* the address a pointer value holds (addresses are below 2^24)
address_of(ptr) == ptr.bits[1] + 256 * ptr.bits[2] + 65536 * ptr.bits[3]

\* fbuilder.ins().load(ty, MemFlags::new(), ptr, offset)
load(fb, ty, ptr, offset) ==
    Value(ty, [i \in 1..bytes(ty) |-> fb.mem[address_of(ptr) - StackBase + offset + i]])

TAG_TYPE == "I32"

TAG_PACKET_PENDING == 0

TAG_PACKET_DATA == 1

TAG_PACKET_FAILED == 2

PayloadKind(kind, target) == [kind |-> kind, target |-> target]

\* mutant: a single field wider than the pointer is inlined
payload_kind_inline_wide(size_t, param_types) ==
    IF Len(param_types) = 1
    THEN IF bytes(param_types[1]) < bytes(size_t)
         THEN PayloadKind("InlineCasted", param_types[1])
         ELSE PayloadKind("Inline", "")
    ELSE IF Len(param_types) = 0
         THEN PayloadKind("Zero", "")
         ELSE PayloadKind("StackPointer", "")

payload_kind(size_t, param_types) ==
    IF Len(param_types) = 1
    THEN (CASE bytes(param_types[1]) < bytes(size_t) ->
                    PayloadKind("InlineCasted", param_types[1])
            [] bytes(param_types[1]) = bytes(size_t) -> PayloadKind("Inline", "")
            [] bytes(param_types[1]) > bytes(size_t) -> PayloadKind("StackPointer", ""))
    ELSE IF Len(param_types) = 0
         THEN PayloadKind("Zero", "")
         ELSE PayloadKind("StackPointer", "")

types_of_values(vs) == [i \in DOMAIN vs |-> type_of_value(vs[i])]

\* the stores of stack_alloc_payload and stack_alloc_captures, from parameter i on
RECURSIVE stack_store_from(_, _, _, _, _)
stack_store_from(fb, vs, slot, i, offset) ==
    IF i > Len(vs) THEN fb
    ELSE stack_store_from(stack_store(fb, vs[i], slot, offset), vs, slot, i + 1,
                          offset + bytes(type_of_value(vs[i])))

RECURSIVE sum_of_bytes(_, _)
sum_of_bytes(vs, i) ==
    IF i > Len(vs) THEN 0 ELSE bytes(type_of_value(vs[i])) + sum_of_bytes(vs, i + 1)

stack_alloc_payload(size_t, fb, vs) ==
    LET slot == Len(fb.slots) + 1
        stored == stack_store_from(create_sized_stack_slot(fb, sum_of_bytes(vs, 1)),
                                   vs, slot, 1, 0)
    IN  [fb |-> emit(stored, <<"stack_addr">>), v |-> stack_addr(size_t, stored, slot, 0)]

\* mutant: a narrow field is used as the payload without being extended
construct_tagged_union_unextended(size_t, fb, tag, vs) ==
    LET kind == payload_kind(size_t, types_of_values(vs)).kind
        made == IF kind = "StackPointer" THEN stack_alloc_payload(size_t, fb, vs)
                ELSE IF kind = "Zero"
                     THEN [fb |-> emit(fb, <<"iconst">>), v |-> iconst(size_t, 0)]
                     ELSE [fb |-> fb, v |-> vs[1]]
    IN  [fb |-> emit(made.fb, <<"iconst">>), tag |-> iconst(TAG_TYPE, tag),
         payload |-> made.v]

construct_tagged_union(size_t, fb, tag, vs) ==
    LET kind == payload_kind(size_t, types_of_values(vs)).kind
        made == CASE kind = "InlineCasted" ->
                        [fb |-> emit(fb, <<"sextend">>), v |-> sextend(size_t, vs[1])]
                  [] kind = "Inline" -> [fb |-> fb, v |-> vs[1]]
                  [] kind = "Zero" ->
                        [fb |-> emit(fb, <<"iconst">>), v |-> iconst(size_t, 0)]
                  [] kind = "StackPointer" -> stack_alloc_payload(size_t, fb, vs)
    IN  [fb |-> emit(made.fb, <<"iconst">>), tag |-> iconst(TAG_TYPE, tag),
         payload |-> made.v]

\* the loads of read_payload, from parameter type i on
RECURSIVE load_from(_, _, _, _, _)
load_from(fb, payload, param_types, i, offset) ==
    IF i > Len(param_types) THEN <<>>
    ELSE <<load(fb, param_types[i], payload, offset)>>
         \o load_from(fb, payload, param_types, i + 1, offset + bytes(param_types[i]))

\* mutant: every field is loaded from the start of the payload
read_payload_offset_zero(size_t, fb, payload, param_types) ==
    LET kind == payload_kind(size_t, param_types)
        n == Len(param_types)
    IN  CASE kind.kind = "InlineCasted" ->
                [fb |-> emit(fb, [i \in 1..n |-> "ireduce"]),
                 values |-> [i \in 1..n |-> ireduce(kind.target, payload)]]
          [] kind.kind = "Inline" -> [fb |-> fb, values |-> [i \in 1..n |-> payload]]
          [] kind.kind = "Zero" ->
                [fb |-> emit(fb, [i \in 1..n |-> "iconst"]),
                 values |-> [i \in 1..n |-> iconst(size_t, 0)]]
          [] kind.kind = "StackPointer" ->
                [fb |-> emit(fb, [i \in 1..n |-> "load"]),
                 values |-> [i \in 1..n |-> load(fb, param_types[i], payload, 0)]]

read_payload(size_t, fb, payload, param_types) ==
    LET kind == payload_kind(size_t, param_types)
        n == Len(param_types)
    IN  CASE kind.kind = "InlineCasted" ->
                [fb |-> emit(fb, [i \in 1..n |-> "ireduce"]),
                 values |-> [i \in 1..n |-> ireduce(kind.target, payload)]]
          [] kind.kind = "Inline" -> [fb |-> fb, values |-> [i \in 1..n |-> payload]]
          [] kind.kind = "Zero" ->
                [fb |-> emit(fb, [i \in 1..n |-> "iconst"]),
                 values |-> [i \in 1..n |-> iconst(size_t, 0)]]
          [] kind.kind = "StackPointer" ->
                [fb |-> emit(fb, [i \in 1..n |-> "load"]),
                 values |-> load_from(fb, payload, param_types, 1, 0)]

KindCalled(size_t, param_types) ==
    LET kind == payload_kind(size_t, param_types)
    IN  [types |-> param_types, kind |-> kind.kind, target |-> kind.target]

(***************************************************************************)
(* SpecUnion: one variant is constructed from the values `operands` and    *)
(* its payload is read back with the types of these values.                *)
(***************************************************************************)
PointerTypes == {"I32", "I64"}

ParamInts == {5, -2}

ParamChoices == {iconst(ty, n) : ty \in ScalarTypes, n \in ParamInts}

Tags == {TAG_PACKET_PENDING, TAG_PACKET_DATA, TAG_PACKET_FAILED}

notBuilderVars == <<typesVars, layoutVars, lowerVars, mainVars>>
notUnionVars == <<notBuilderVars, closureVars>>

InitUnion ==
    /\ isa_pointer_type \in PointerTypes
    /\ operands \in SeqsUpTo(ParamChoices, MaxPayloadFields)
    /\ fbuilder = NewFunctionBuilder
    /\ tagged = <<>>
    /\ matched = ""
    /\ payload_read = NoRead
    /\ last_kind = NoKind
    /\ upc = "construct_tagged_union"
    /\ ClosuresIdle
    /\ TypesIdle
    /\ LayoutIdle
    /\ LowerIdle

ConstructTaggedUnion ==
    /\ upc = "construct_tagged_union"
    /\ \E tag \in Tags :
        \E r \in {construct_tagged_union(isa_pointer_type, fbuilder, tag, operands)} :
            /\ fbuilder' = r.fb
            /\ tagged' = <<[tag |-> r.tag, payload |-> r.payload]>>
    /\ last_kind' = KindCalled(isa_pointer_type, types_of_values(operands))
    /\ upc' = "read_payload"
    /\ UNCHANGED <<isa_pointer_type, operands, matched, payload_read, notUnionVars>>

ReadPayload ==
    /\ upc = "read_payload"
    /\ \E r \in {read_payload(isa_pointer_type, fbuilder, tagged[1].payload,
                              types_of_values(operands))} :
            /\ fbuilder' = r.fb
            /\ payload_read' = [done |-> TRUE, values |-> r.values]
    /\ last_kind' = KindCalled(isa_pointer_type, types_of_values(operands))
    /\ upc' = "done"
    /\ UNCHANGED <<isa_pointer_type, operands, matched, tagged, notUnionVars>>

NextUnion ==
    \/ ConstructTaggedUnion
    \/ ReadPayload

SpecUnion == InitUnion /\ [][NextUnion]_vars

\* C12: payload_kind returns Zero for no field, InlineCasted to the field's type for one
\* field narrower than the pointer, Inline for one field as wide as the pointer, and
\* StackPointer for one wider field or several fields
C12_PayloadKindPolicy ==
    last_kind.kind # "none" =>
        LET tys == last_kind.types
            n == Len(tys)
            narrower == n = 1 /\ bytes(tys[1]) < bytes(isa_pointer_type)
            same == n = 1 /\ bytes(tys[1]) = bytes(isa_pointer_type)
        IN  /\ last_kind.kind \in {"Zero", "InlineCasted", "Inline", "StackPointer"}
            /\ last_kind.kind = "Zero" <=> n = 0
            /\ last_kind.kind = "InlineCasted" <=> narrower
            /\ last_kind.kind = "InlineCasted" => last_kind.target = tys[1]
            /\ last_kind.kind = "Inline" <=> same
            /\ last_kind.kind = "StackPointer" <=> (n >= 1 /\ ~narrower /\ ~same)

\* payload_kind has answered for a single field wider than the pointer
C12_Witness ==
    /\ last_kind.kind = "StackPointer"
    /\ Len(last_kind.types) = 1
    /\ bytes(last_kind.types[1]) > bytes(isa_pointer_type)

\* C13: read_payload, given the types of the constructor's parameters, returns the
\* values construct_tagged_union was given, in order, whatever the encoding
C13_RoundTrip ==
    payload_read.done => payload_read.values = operands

\* three fields of different widths were read back from a stack slot
C13_Witness ==
    /\ payload_read.done
    /\ last_kind.kind = "StackPointer"
    /\ Len(operands) = 3
    /\ operands[1].ty # operands[2].ty
    /\ operands[2] # operands[3]
    /\ fbuilder.slots = <<sum_of_bytes(operands, 1)>>

\* C14: a constructed tagged union is a tag of TAG_TYPE and a payload as wide as the
\* pointer, so every variant takes TAG_TYPE.bytes() + size_t.bytes() bytes
C14_UniformSize ==
    \A i \in DOMAIN tagged :
        /\ tagged[i].tag.ty = TAG_TYPE
        /\ Len(tagged[i].tag.bits) = bytes(TAG_TYPE)
        /\ bytes(tagged[i].payload.ty) = bytes(isa_pointer_type)
        /\ Len(tagged[i].payload.bits) = bytes(isa_pointer_type)
        /\ Len(tagged[i].tag.bits) + Len(tagged[i].payload.bits)
                = bytes(TAG_TYPE) + bytes(isa_pointer_type)

\* a variant with one narrow field was constructed: its payload is wider than the field
C14_Witness ==
    /\ Len(tagged) = 1
    /\ last_kind.kind = "InlineCasted"
    /\ Len(operands[1].bits) < Len(tagged[1].payload.bits)

(***************************************************************************)
(* SpecPacket: main of tagged-union-layouts.  The three packets are        *)
(* constructed, br_table branches on the tag of the matched one and the    *)
(* block it reaches is executed.  The source matches packet_data (line     *)
(* 97); `matched` lets it be any of the three bindings, and the integer    *)
(* literals are drawn from PacketLiterals.                                 *)
(***************************************************************************)
PacketLiterals == [one : {10, 11}, two : {20}, three : {30, -30}, hundred : {100, -100}]

PacketBindings == {"packet_pending", "packet_data", "packet_failed"}

\* the index br_table reads from the tag: its unsigned value, 256 standing for
\* every value above 255
table_index(tag) ==
    IF \A i \in 2..Len(tag.bits) : tag.bits[i] = 0 THEN tag.bits[1] ELSE 256

\* mutant: entry k of the table is taken for tag k, counting entries from 1
br_table_one_based(tag, jt) ==
    IF table_index(tag) \in 1..Len(jt.table)
    THEN jt.table[table_index(tag)] ELSE jt.default

\* fbuilder.ins().br_table(tag, table): the block control goes to
br_table(tag, jt) ==
    IF table_index(tag) < Len(jt.table)
    THEN jt.table[table_index(tag) + 1] ELSE jt.default

\* lines 100-115: one block per variant, then the trap block, then the table
create_jump_table(fb) ==
    [fb EXCEPT !.blocks = @ + 4,
               !.jump_table = [default |-> fb.blocks + 4,
                               table |-> [k \in 1..3 |-> fb.blocks + k]]]

\* the instructions of the block control is in, lines 120-162
branch_body(size_t, fb, payload) ==
    LET branches == fb.jump_table.table
    IN  CASE fb.block = branches[TAG_PACKET_PENDING + 1] ->
                [emit(fb, <<"iconst", "return">>) EXCEPT
                    !.returned = <<iconst("I32", 10)>>]
          [] fb.block = branches[TAG_PACKET_DATA + 1] ->
                Then(read_payload(size_t, fb, payload, <<"I32", "I32", "I32">>),
                     LAMBDA r :
                        [emit(r.fb, <<"iadd", "iadd", "return">>) EXCEPT
                            !.returned = <<iadd(iadd(r.values[1], r.values[2]),
                                                r.values[3])>>])
          [] fb.block = branches[TAG_PACKET_FAILED + 1] ->
                Then(read_payload(size_t, fb, payload, <<"I32">>),
                     LAMBDA r :
                        [emit(r.fb, <<"return">>) EXCEPT !.returned = <<r.values[1]>>])
          [] fb.block = fb.jump_table.default ->
                [emit(fb, <<"trap">>) EXCEPT !.trapped = TRUE]

InitPacket ==
    /\ isa_pointer_type \in PointerTypes
    /\ operands \in PacketLiterals
    /\ matched \in PacketBindings
    /\ fbuilder = NewFunctionBuilder
    /\ tagged = <<>>
    /\ payload_read = NoRead
    /\ last_kind = NoKind
    /\ upc = "packet_data"
    /\ ClosuresIdle
    /\ TypesIdle
    /\ LayoutIdle
    /\ LowerIdle

\* `let name = construct_tagged_union(module, &mut fbuilder, tag, vs)`, after the
\* iconst instructions that define vs
ConstructPacket(name, tag, vs) ==
    \E r \in {construct_tagged_union(isa_pointer_type,
                                     emit(fbuilder, [i \in DOMAIN vs |-> "iconst"]),
                                     tag, vs)} :
        /\ fbuilder' = r.fb
        /\ tagged' = Bind(tagged, name, [tag |-> r.tag, payload |-> r.payload])
        /\ last_kind' = KindCalled(isa_pointer_type, types_of_values(vs))
        /\ UNCHANGED <<isa_pointer_type, operands, matched, payload_read, notUnionVars>>

PacketData ==
    /\ upc = "packet_data"
    /\ ConstructPacket("packet_data", TAG_PACKET_DATA,
                       <<iconst("I32", operands.one), iconst("I32", operands.two),
                         iconst("I32", operands.three)>>)
    /\ upc' = "packet_pending"

PacketPending ==
    /\ upc = "packet_pending"
    /\ ConstructPacket("packet_pending", TAG_PACKET_PENDING, <<>>)
    /\ upc' = "packet_failed"

PacketFailed ==
    /\ upc = "packet_failed"
    /\ ConstructPacket("packet_failed", TAG_PACKET_FAILED,
                       <<iconst("I32", operands.hundred)>>)
    /\ upc' = "br_table"

PacketBrTable ==
    /\ upc = "br_table"
    /\ \E fb \in {create_jump_table(fbuilder)} :
            fbuilder' = [emit(fb, <<"br_table">>) EXCEPT
                            !.block = br_table(tagged[matched].tag, fb.jump_table)]
    /\ upc' = "branch"
    /\ UNCHANGED <<unionVars, notUnionVars>>

PacketBranch ==
    /\ upc = "branch"
    /\ fbuilder' = branch_body(isa_pointer_type, fbuilder, tagged[matched].payload)
    /\ upc' = "done"
    /\ UNCHANGED <<unionVars, notUnionVars>>

NextPacket ==
    \/ PacketData
    \/ PacketPending
    \/ PacketFailed
    \/ PacketBrTable
    \/ PacketBranch

SpecPacket == InitPacket /\ [][NextPacket]_vars

\* the tag constant of the variant a binding of main holds
TagOfBinding(name) ==
    CASE name = "packet_pending" -> TAG_PACKET_PENDING
      [] name = "packet_data" -> TAG_PACKET_DATA
      [] name = "packet_failed" -> TAG_PACKET_FAILED

\* C15: the jump table of main has one block per variant of Packet in tag order and a
\* separate trap block as default; br_table takes a packet with tag k to entry k, the
\* trap is never reached, and the block reached returns what the arm of the match
\* returns: 10 for Pending, x + y + z for Data(x, y, z), code for Failed(code)
C15_Dispatch ==
    /\ ~fbuilder.trapped
    /\ upc \in {"branch", "done"} =>
        LET jt == fbuilder.jump_table
            k == TagOfBinding(matched)
        IN  /\ Len(jt.table) = Cardinality(PacketBindings)
            /\ \A i, j \in 1..Len(jt.table) : i # j => jt.table[i] # jt.table[j]
            /\ \A i \in 1..Len(jt.table) : jt.table[i] # jt.default
            /\ tagged[matched].tag = iconst(TAG_TYPE, k)
            /\ fbuilder.block = jt.table[k + 1]
    /\ upc = "done" =>
        /\ matched = "packet_pending" => fbuilder.returned = <<iconst("I32", 10)>>
        /\ matched = "packet_data" =>
                fbuilder.returned =
                    <<iconst("I32", operands.one + operands.two + operands.three)>>
        /\ (matched = "packet_data" /\ operands.one = 10 /\ operands.three = 30) =>
                fbuilder.returned = <<iconst("I32", 60)>>
        /\ matched = "packet_failed" =>
                fbuilder.returned = <<iconst("I32", operands.hundred)>>

\* main matched Packet::Data(10, 20, 30) and returned
C15_Witness ==
    /\ upc = "done"
    /\ matched = "packet_data"
    /\ operands.one = 10 /\ operands.two = 20 /\ operands.three = 30
    /\ fbuilder.returned = <<iconst("I32", 60)>>
    /\ fbuilder.block = 3

(***************************************************************************)
(* Part 5: examples/closures.                                              *)
(*                                                                         *)
(* module.functions[id + 1] is the declaration of FuncId id.  A call is    *)
(* executed when it is emitted: the forwarding function the code pointer   *)
(* designates loads the captures and the body function computes the        *)
(* result.                                                                 *)
(***************************************************************************)
MaxClosures == 2

MaxCaptures == 2

MaxCalls == 2

\* FuncIds in declaration order: declare_main, then the two body functions
MainFuncId == 0

F0FuncId == 1

F1FuncId == 2

\* the address func_addr yields for FuncId 0
CodeBase == 5000

Signature(call_conv, ps, returns) ==
    [params |-> ps, returns |-> returns, call_conv |-> call_conv]

FuncDecl(name, linkage, sig) ==
    [name |-> name, linkage |-> linkage, signature |-> sig, defined |-> FALSE,
     body |-> [f |-> -1, captys |-> <<>>]]

\* module.declare_function(name, linkage, &sig): a name declared before is declared
\* again only with the same signature
declare_function(m, name, linkage, sig) ==
    LET found == {i \in DOMAIN m.functions : m.functions[i].name = name}
    IN  IF found = {}
        THEN [module |-> [m EXCEPT !.functions = Append(@, FuncDecl(name, linkage, sig))],
              id |-> Len(m.functions)]
        ELSE LET i == CHOOSE i \in found : TRUE
             IN  IF m.functions[i].signature = sig
                 THEN [module |-> m, id |-> i - 1]
                 ELSE [module |-> [m EXCEPT !.panic = "IncompatibleSignature"],
                       id |-> i - 1]

\* module.define_function(func_id, ctx).unwrap(): a function is defined once
define_function(m, func_id, body) ==
    IF m.functions[func_id + 1].defined
    THEN [m EXCEPT !.panic = "DuplicateDefinition"]
    ELSE [m EXCEPT !.functions[func_id + 1].defined = TRUE,
                   !.functions[func_id + 1].body = body]

signature_from_decl(m, f) == m.functions[f + 1].signature

\* declare_main, declare_f0_real_function, declare_f1_real_function
DeclaredModule ==
    LET i32 == AbiParam_new("I32")
        main == declare_function(NoModule, <<"main">>, "Export",
                                 Signature(DefaultCallConv, <<>>, <<i32>>)).module
        f0 == declare_function(main, <<"f0_real_function">>, "Local",
                               Signature("Fast", <<i32, i32>>, <<i32>>)).module
    IN  declare_function(f0, <<"f1_real_function">>, "Local",
                         Signature("Fast", <<i32, i32, i32>>, <<i32>>)).module

\* the signature create_forwarding_func builds, lines 282-296
forwarding_sig(size_t, m, f, captys) ==
    LET real_func_sig == signature_from_decl(m, f)
    IN  Signature("Fast",
                  <<AbiParam_new(size_t)>>
                      \o SubSeq(real_func_sig.params, Len(captys) + 1,
                                Len(real_func_sig.params)),
                  real_func_sig.returns)

\* mutant: the capture parameters of the body are kept in the forwarding signature
create_forwarding_func_keep_captures(size_t, m, f, captys) ==
    LET real_func_sig == signature_from_decl(m, f)
        sig == Signature("Fast", <<AbiParam_new(size_t)>> \o real_func_sig.params,
                         real_func_sig.returns)
        declared == declare_function(m, <<"closure_forward_", f>>, "Local", sig)
    IN  [module |-> IF declared.module.panic # "" THEN declared.module
                    ELSE define_function(declared.module, declared.id,
                                         [f |-> f, captys |-> captys]),
         func_id |-> declared.id, sig |-> sig]

\* The forwarding function calls f with the captures followed by its own parameters
\* after the pointer; with more captures than f has parameters the call does not match
\* the signature of f and define_function(..).unwrap() fails on the function.
create_forwarding_func(size_t, m, f, captys) ==
    LET symbol == <<"closure_forward_", f>>
        sig == forwarding_sig(size_t, m, f, captys)
        declared == declare_function(m, symbol, "Local", sig)
    IN  [module |-> IF declared.module.panic # "" THEN declared.module
                    ELSE IF Len(captys) > Len(signature_from_decl(m, f).params)
                         THEN [declared.module EXCEPT !.panic = "Compilation"]
                         ELSE define_function(declared.module, declared.id,
                                              [f |-> f, captys |-> captys]),
         func_id |-> declared.id, sig |-> sig]

stack_alloc_captures(size_t, fb, captures) ==
    LET slot == Len(fb.slots) + 1
        stored == stack_store_from(create_sized_stack_slot(fb, sum_of_bytes(captures, 1)),
                                   captures, slot, 1, 0)
    IN  [fb |-> emit(stored, <<"stack_addr">>), v |-> stack_addr(size_t, stored, slot, 0)]

\* fbuilder.ins().func_addr(size_t, fref)
func_addr(size_t, func_id) == iconst(size_t, CodeBase + func_id)

Closure(data, func, sig) == [data |-> data, func |-> func, sig |-> sig]

construct_closure(size_t, m, fb, closure_fn, captures) ==
    LET boxed_captures == stack_alloc_captures(size_t, fb, captures)
        made == create_forwarding_func(size_t, m, closure_fn, types_of_values(captures))
    IN  [module |-> made.module,
         fb |-> emit(boxed_captures.fb, <<"func_addr">>),
         closure |-> Closure(boxed_captures.v, func_addr(size_t, made.func_id), made.sig)]

\* mutant: every capture is loaded from the start of the boxed captures
deref_captures_offset_zero(fb, ptr, captys, i, offset) ==
    [k \in 1..Len(captys) |-> load(fb, captys[k], ptr, 0)]

\* the loads of the forwarding function, lines 319-325, from capture type i on
RECURSIVE deref_captures(_, _, _, _, _)
deref_captures(fb, ptr, captys, i, offset) ==
    IF i > Len(captys) THEN <<>>
    ELSE <<load(fb, captys[i], ptr, offset)>>
         \o deref_captures(fb, ptr, captys, i + 1, offset + bytes(captys[i]))

\* the parameters the forwarding function defined with `body` passes to its body
\* function when it is called with forwarding_params, lines 315-333
real_call_params(fb, body, forwarding_params) ==
    deref_captures(fb, forwarding_params[1], body.captys, 1, 0) \o Tail(forwarding_params)

\* what the body functions return, lines 107-113 and 129-136
real_function(f, ps) ==
    CASE f = F0FuncId -> <<iadd(iadd(ps[1], ps[2]), iconst("I32", 1))>>
      [] f = F1FuncId -> <<iadd(iadd(ps[1], ps[3]), ps[2])>>

\* the function a code pointer designates
callee_of(m, func) == m.functions[address_of(func) - CodeBase + 1]

\* mutant: the data pointer is not passed
Closure_call_without_data(fb, m, self, ps) ==
    LET body == callee_of(m, self.func).body
        passed == real_call_params(fb, body, <<self.data>> \o ps)
    IN  [fb |-> emit(fb, <<"call_indirect">>),
         inst |-> [opcode |-> "call_indirect", sig |-> self.sig, callee |-> self.func,
                   args |-> ps],
         passed |-> passed,
         results |-> real_function(body.f, passed)]

\* Closure::call
Closure_call(fb, m, self, ps) ==
    LET real_params == <<self.data>> \o ps
        body == callee_of(m, self.func).body
        passed == real_call_params(fb, body, real_params)
    IN  [fb |-> emit(fb, <<"call_indirect">>),
         inst |-> [opcode |-> "call_indirect", sig |-> self.sig, callee |-> self.func,
                   args |-> real_params],
         passed |-> passed,
         results |-> real_function(body.f, passed)]

(***************************************************************************)
(* SpecClosures: the body of main constructs closures over the two body    *)
(* functions and calls them.  The source constructs f0 over [a] and f1     *)
(* over [a, b], calls both with [x] and returns the sum (lines 67-91); the *)
(* model lets the body construct up to MaxClosures closures over either    *)
(* body function with up to MaxCaptures captures, in any order with up to  *)
(* MaxCalls calls.                                                         *)
(***************************************************************************)
ClosureLiterals == [a : {1, 7}, b : {2}, x : {3, -3}]

RealFunctions == {F0FuncId, F1FuncId}

Local(name) == iconst("I32", operands[name])

InitClosures ==
    /\ isa_pointer_type \in PointerTypes
    /\ operands \in ClosureLiterals
    /\ fbuilder = emit(NewFunctionBuilder, <<"iconst", "iconst", "iconst">>)
    /\ module = DeclaredModule
    /\ closures = <<>>
    /\ calls = <<>>
    /\ upc = "main"
    /\ tagged = <<>>
    /\ matched = ""
    /\ payload_read = NoRead
    /\ last_kind = NoKind
    /\ TypesIdle
    /\ LayoutIdle
    /\ LowerIdle

notClosureVars == <<isa_pointer_type, operands, tagged, matched, payload_read, last_kind,
                    notBuilderVars>>

ConstructClosure ==
    /\ upc = "main"
    /\ Len(closures) < MaxClosures
    /\ \E closure_fn \in RealFunctions :
        \E captures \in SeqsUpTo({Local("a"), Local("b")}, MaxCaptures) :
            \E r \in {construct_closure(isa_pointer_type, module, fbuilder, closure_fn,
                                        captures)} :
                /\ module' = r.module
                /\ fbuilder' = r.fb
                /\ IF r.module.panic # ""
                   THEN /\ upc' = "panicked"
                        /\ UNCHANGED closures
                   ELSE /\ upc' = upc
                        /\ closures' = Append(closures,
                                              [closure_fn |-> closure_fn,
                                               captures |-> captures,
                                               closure |-> r.closure])
    /\ UNCHANGED <<calls, notClosureVars>>

CallClosure ==
    /\ upc = "main"
    /\ Len(calls) < MaxCalls
    /\ \E k \in DOMAIN closures :
        \E ps \in [1..(Len(closures[k].closure.sig.params) - 1) ->
                        {Local("x"), Local("b")}] :
            \E r \in {Closure_call(fbuilder, module, closures[k].closure, ps)} :
                /\ fbuilder' = r.fb
                /\ calls' = Append(calls, [closure |-> k, params |-> ps, inst |-> r.inst,
                                           passed |-> r.passed, results |-> r.results])
    /\ UNCHANGED <<upc, module, closures, notClosureVars>>

\* `return t + u` and module.define_function(main_func_id, ctx), lines 90-97
ClosuresReturn ==
    /\ upc = "main"
    /\ Len(calls) = 2
    /\ fbuilder' = [emit(fbuilder, <<"iadd", "return">>) EXCEPT
                        !.returned = <<iadd(calls[1].results[1], calls[2].results[1])>>]
    /\ module' = define_function(module, MainFuncId, [f |-> MainFuncId, captys |-> <<>>])
    /\ upc' = "f0"
    /\ UNCHANGED <<closures, calls, notClosureVars>>

\* the bodies of f0_real_function and f1_real_function are defined, lines 100-143
DefineRealFunction ==
    /\ upc \in {"f0", "f1"}
    /\ \E f \in {IF upc = "f0" THEN F0FuncId ELSE F1FuncId} :
            module' = define_function(module, f, [f |-> f, captys |-> <<>>])
    /\ upc' = IF upc = "f0" THEN "f1" ELSE "done"
    /\ UNCHANGED <<fbuilder, closures, calls, notClosureVars>>

NextClosures ==
    \/ ConstructClosure
    \/ CallClosure
    \/ ClosuresReturn
    \/ DefineRealFunction

SpecClosures == InitClosures /\ [][NextClosures]_vars

\* the parameters of the body function of a constructed closure that are not captures
NonCaptureParams(c) ==
    LET real == signature_from_decl(module, c.closure_fn).params
    IN  SubSeq(real, Len(c.captures) + 1, Len(real))

\* C16: the signature of a forwarding function is the pointer followed by the body's
\* parameters after the captures, with the body's returns; closures whose bodies agree
\* on these have the same forwarding signature whatever they capture
C16_ForwardingSignature ==
    /\ \A i \in DOMAIN closures :
        LET c == closures[i]
            real == signature_from_decl(module, c.closure_fn)
            n == Len(c.captures)
            sig == c.closure.sig
        IN  /\ Len(sig.params) = 1 + (Len(real.params) - n)
            /\ sig.params[1] = AbiParam_new(isa_pointer_type)
            /\ \A j \in 1..(Len(real.params) - n) : sig.params[j + 1] = real.params[n + j]
            /\ sig.returns = real.returns
            /\ callee_of(module, c.closure.func).signature = sig
    /\ \A i, j \in DOMAIN closures :
        (/\ NonCaptureParams(closures[i]) = NonCaptureParams(closures[j])
         /\ signature_from_decl(module, closures[i].closure_fn).returns
                = signature_from_decl(module, closures[j].closure_fn).returns)
            => closures[i].closure.sig = closures[j].closure.sig

\* closures over different bodies with one and two captures have the same signature
C16_Witness ==
    /\ Len(closures) = 2
    /\ closures[1].closure_fn # closures[2].closure_fn
    /\ Len(closures[1].captures) = 1
    /\ Len(closures[2].captures) = 2
    /\ closures[1].closure.sig = closures[2].closure.sig
    /\ Len(closures[1].closure.sig.params) = 2

\* the body of main as the source has it: f0 over [a], f1 over [a, b], both called
\* with [x]
SourceBody ==
    /\ Len(closures) = 2
    /\ closures[1].closure_fn = F0FuncId /\ closures[1].captures = <<Local("a")>>
    /\ closures[2].closure_fn = F1FuncId
    /\ closures[2].captures = <<Local("a"), Local("b")>>
    /\ Len(calls) = 2
    /\ calls[1].closure = 1 /\ calls[1].params = <<Local("x")>>
    /\ calls[2].closure = 2 /\ calls[2].params = <<Local("x")>>

\* C17: a called closure passes its body the captures it was constructed with followed
\* by the arguments of the call; f0 = |x| a + x + 1 and f1 = |x| a + x + b return these
\* sums, and main of the source returns 11 for a = 1, b = 2, x = 3
C17_OwnCaptures ==
    /\ \A i \in DOMAIN calls :
        LET c == closures[calls[i].closure]
        IN  /\ calls[i].passed = c.captures \o calls[i].params
            /\ (/\ c.closure_fn = F0FuncId
                /\ c.captures = <<Local("a")>>
                /\ calls[i].params = <<Local("x")>>)
                    => calls[i].results = <<iconst("I32", operands.a + operands.x + 1)>>
            /\ (/\ c.closure_fn = F1FuncId
                /\ c.captures = <<Local("a"), Local("b")>>
                /\ calls[i].params = <<Local("x")>>)
                    => calls[i].results
                            = <<iconst("I32", operands.a + operands.x + operands.b)>>
    /\ (SourceBody /\ operands = [a |-> 1, b |-> 2, x |-> 3]) =>
            /\ calls[1].results = <<iconst("I32", 5)>>
            /\ calls[2].results = <<iconst("I32", 6)>>
            /\ upc \in {"f0", "f1", "done"} => fbuilder.returned = <<iconst("I32", 11)>>

\* main of the source has returned 11
C17_Witness ==
    /\ SourceBody
    /\ operands = [a |-> 1, b |-> 2, x |-> 3]
    /\ upc = "done"
    /\ calls[1].passed # calls[2].passed
    /\ fbuilder.returned = <<iconst("I32", 11)>>

\* C18: every construct_closure call gets a forwarding function of its own: no symbol
\* is declared with two signatures or defined twice, and no two closures share one
C18_UniqueForwarders ==
    /\ module.panic \notin {"IncompatibleSignature", "DuplicateDefinition"}
    /\ \A i, j \in DOMAIN closures :
            i # j => closures[i].closure.func # closures[j].closure.func

\* the number of call_indirect instructions among the first n emitted
RECURSIVE IndirectCalls(_, _)
IndirectCalls(insts, n) ==
    IF n = 0 THEN 0
    ELSE IndirectCalls(insts, n - 1) + (IF insts[n] = "call_indirect" THEN 1 ELSE 0)

\* C19: Closure::call emits one call_indirect through the closure's func with the
\* closure's recorded signature and the data pointer followed by the arguments; the
\* argument count is the parameter count of that signature,
\* 1 + (parameters of the body - captures)
C19_IndirectCall ==
    /\ IndirectCalls(fbuilder.insts, Len(fbuilder.insts)) = Len(calls)
    /\ \A i \in DOMAIN calls :
        LET c == closures[calls[i].closure]
            inst == calls[i].inst
        IN  /\ inst.opcode = "call_indirect"
            /\ inst.callee = c.closure.func
            /\ inst.sig = c.closure.sig
            /\ inst.sig = callee_of(module, c.closure.func).signature
            /\ inst.args = <<c.closure.data>> \o calls[i].params
            /\ Len(inst.args) = Len(inst.sig.params)
            /\ Len(inst.args)
                = 1 + (Len(signature_from_decl(module, c.closure_fn).params)
                        - Len(c.captures))

\* a closure over f1 with one capture was called with two arguments
C19_Witness ==
    \E i \in DOMAIN calls :
        /\ closures[calls[i].closure].closure_fn = F1FuncId
        /\ Len(closures[calls[i].closure].captures) = 1
        /\ Len(calls[i].params) = 2
        /\ Len(calls[i].inst.args) = 3

====
